---- MODULE Spec2Model ----
(***************************************************************************)
(* A model of ezbson: Marshal (serialize.go) and Unmarshal                 *)
(* (deserialize.go), the reflection-based BSON codec.                      *)
(*                                                                         *)
(* Go values are records tagged with their dynamic type in the field       *)
(* `kind`; byte strings, names and buffers are sequences of 0..255.        *)
(* 64-bit quantities (int64, int, float64 bit patterns) are kept as two    *)
(* 32-bit halves [hi, lo], each the signed reading of its 32 bits, since   *)
(* integers here are 32 bits wide.                                         *)
(***************************************************************************)
EXTENDS Integers, Sequences, FiniteSets, TLC

VARIABLES
    pc,       \* what happened last: "idle", "marshalled", "compared",
              \* "altered", "renamed", "truncated", "extended", "unmarshalled"
    doc,      \* the value last handed to Marshal
    enc,      \* what Marshal returned for doc: [st, bytes]
    doc2,     \* a second value with the same names and values as doc
    enc2,     \* what Marshal returned for doc2
    wire,     \* the byte sequence that is handed to Unmarshal
    extra,    \* how many bytes were appended to wire after Marshal wrote it
    target,   \* the ptr argument of Unmarshal as it was before the call
    dec       \* what Unmarshal returned: [st, val, numread]

vars == <<pc, doc, enc, doc2, enc2, wire, extra, target, dec>>

----------------------------------------------------------------------------
(* Element type tags, serialize.go:24-47. *)

kEtypeDone == 0
kEtypeDouble == 1
kEtypeString == 2
kEtypeDocument == 3
kEtypeArray == 4
kEtypeBinary == 5
kEtypeDeprecated6 == 6
kEtypeBoolean == 8
kEtypeUtcDatetime == 9
kEtypeNull == 10
kEtypeInt32 == 16
kEtypeInt64 == 18

kBinarySubtype == 0
kNullTerminator == 0

kEtypeSize == 1
kSubtypeSize == 1
kInt8Size == 1
kInt32Size == 4
kInt64Size == 8
kFloat64Size == 8

MaxInt32 == 2147483647

----------------------------------------------------------------------------
(* Little-endian fixed-width codecs. *)

\* The four bytes binary.Write(LittleEndian, int32) produces: the two's
\* complement of val, least significant byte first.
convertInt32ToBytes(val) ==
    LET w == IF val >= 0 THEN val ELSE (val + MaxInt32) + 1
        top == (w \div 16777216) + (IF val < 0 THEN 128 ELSE 0)
    IN  << w % 256, (w \div 256) % 256, (w \div 65536) % 256, top >>

\* A 64-bit quantity: low half first, then high half.
convertInt64ToBytes(val) ==
    convertInt32ToBytes(val.lo) \o convertInt32ToBytes(val.hi)

\* The halves of a 64-bit quantity the other way round: high half first.
highHalfFirst(val) ==
    convertInt32ToBytes(val.hi) \o convertInt32ToBytes(val.lo)

convertFloat64ToBytes(val) ==
    convertInt32ToBytes(val.lo) \o convertInt32ToBytes(val.hi)

\* The int32 that binary.Read(LittleEndian) builds from four bytes.
BytesToInt32(b) ==
    LET u == b[1] + 256 * b[2] + 65536 * b[3] + 16777216 * (b[4] % 128)
    IN  IF b[4] >= 128 THEN (u - MaxInt32) - 1 ELSE u

BytesToInt64(b) ==
    [hi |-> BytesToInt32(SubSeq(b, 5, 8)), lo |-> BytesToInt32(SubSeq(b, 1, 4))]

\* int64(n) for an n that fits 32 bits: sign extension.
Int64Of(n) == [hi |-> IF n < 0 THEN -1 ELSE 0, lo |-> n]

----------------------------------------------------------------------------
(* Go types (reflect.Type) and values.                                     *)

TFloat64 == [kind |-> "float64"]
TString == [kind |-> "string"]
TBytes == [kind |-> "bytes"]          \* []byte
TBool == [kind |-> "bool"]
TTime == [kind |-> "time"]            \* time.Time
TInt32 == [kind |-> "int32"]
TInt64 == [kind |-> "int64"]
TInt == [kind |-> "int"]
TUint8 == [kind |-> "uint8"]
TUint32 == [kind |-> "uint32"]        \* a type Marshal has no tag for
TAny == [kind |-> "interface"]        \* any
TSlice(e) == [kind |-> "slice", elem |-> e]
TMap(k, e) == [kind |-> "map", key |-> k, elem |-> e]
TStruct(fs) == [kind |-> "struct", fields |-> fs]
TPtr(e) == [kind |-> "ptr", elem |-> e]
Fld(n, t) == [name |-> n, type |-> t]

\* reflect.Type.Kind(): []byte is a slice, time.Time is a struct.
RKind(t) ==
    CASE t.kind = "bytes" -> "slice"
      [] t.kind = "time" -> "struct"
      [] OTHER -> t.kind

\* reflect.Type.Elem() of a slice type ([]byte included).
SliceElem(t) == IF t.kind = "bytes" THEN TUint8 ELSE t.elem

VNil == [kind |-> "nil"]              \* the nil interface value
VFloat64(w) == [kind |-> "float64", f |-> w]
VString(x) == [kind |-> "string", s |-> x]
VBytes(x) == [kind |-> "bytes", bin |-> x, null |-> FALSE]
VNilBytes == [kind |-> "bytes", bin |-> <<>>, null |-> TRUE]
VBool(x) == [kind |-> "bool", b |-> x]
\* A time.Time: seconds since the Unix epoch and nanoseconds within the second.
VTime(sec, nsec) == [kind |-> "time", sec |-> sec, nsec |-> nsec]
\* An instant too far from the epoch for 32-bit seconds arithmetic: a whole
\* number of milliseconds, kept as the 64-bit count.
VTimeWide(ms) == [kind |-> "time", wide |-> ms]
VInt32(n) == [kind |-> "int32", i32 |-> n]
VInt64(w) == [kind |-> "int64", i64 |-> w]
VInt(w) == [kind |-> "int", i64 |-> w]
VUint32(n) == [kind |-> "uint32", u |-> n]
VPtr(t, v) == [kind |-> "ptr", to |-> t, isnil |-> FALSE, at |-> v]
VNilPtr(t) == [kind |-> "ptr", to |-> t, isnil |-> TRUE, at |-> VNil]
VSlice(e, xs) == [kind |-> "slice", elemT |-> e, elems |-> xs, null |-> FALSE]
VNilSlice(e) == [kind |-> "slice", elemT |-> e, elems |-> <<>>, null |-> TRUE]
\* A map: its entries in the order this run's iteration visits them.
VMap(k, e, es) ==
    [kind |-> "map", keyT |-> k, elemT |-> e, entries |-> es, null |-> FALSE]
VNilMap(k, e) ==
    [kind |-> "map", keyT |-> k, elemT |-> e, entries |-> <<>>, null |-> TRUE]
\* A struct: its fields in declaration order.
VStruct(fs) == [kind |-> "struct", fields |-> fs]
Ent(n, v) == [name |-> n, val |-> v]
FV(n, t, v) == [name |-> n, type |-> t, val |-> v]

RECURSIVE TypeOf(_)
\* reflect.TypeOf of a non-nil value.
TypeOf(v) ==
    CASE v.kind = "ptr" -> TPtr(v.to)
      [] v.kind = "slice" -> TSlice(v.elemT)
      [] v.kind = "map" -> TMap(v.keyT, v.elemT)
      [] v.kind = "struct" ->
            TStruct([i \in 1..Len(v.fields) |->
                        Fld(v.fields[i].name, v.fields[i].type)])
      [] OTHER -> [kind |-> v.kind]

\* F at the value of v, with v evaluated once: let x = v in F(x).
Bind(v, F(_)) == CHOOSE y \in {F(x) : x \in {v}} : TRUE

Ok(b) == [st |-> "ok", buf |-> b]
\* An error return; why tells which of the code's errors it is.
ErrWhy(b, why) == [st |-> "error", buf |-> b, why |-> why]
Err(b) == ErrWhy(b, "other")
Panic == [st |-> "panic", buf |-> <<>>]

----------------------------------------------------------------------------
(* The encoder, serialize.go. *)

RECURSIVE StrLess(_, _)
\* a < b for Go strings: byte-wise lexicographic.
StrLess(a, b) ==
    IF Len(b) = 0 THEN FALSE
    ELSE IF Len(a) = 0 THEN TRUE
    ELSE IF a[1] /= b[1] THEN a[1] < b[1]
    ELSE StrLess(Tail(a), Tail(b))

RECURSIVE InsertSorted(_, _)
InsertSorted(k, ks) ==
    IF Len(ks) = 0 THEN <<k>>
    ELSE IF StrLess(k, ks[1]) THEN <<k>> \o ks
    ELSE <<ks[1]>> \o InsertSorted(k, Tail(ks))

RECURSIVE SortStrings(_)
\* sort.Strings
SortStrings(ks) ==
    IF Len(ks) = 0 THEN <<>>
    ELSE Bind(SortStrings(Tail(ks)), LAMBDA rest : InsertSorted(ks[1], rest))

\* The keys of m as range visits them, left as they come.
rangedKeys(m) == [i \in 1..Len(m) |-> m[i].name]

\* The keys of m as range visits them, then sorted.
sortedKeys(m) ==
    Bind([i \in 1..Len(m) |-> m[i].name], LAMBDA keys : SortStrings(keys))

RECURSIVE Itoa(_)
\* strconv.Itoa for i >= 0: decimal digits, most significant first.
Itoa(i) ==
    IF i < 10 THEN <<48 + i>>
    ELSE Itoa(i \div 10) \o <<48 + (i % 10)>>

\* m[key] = val on a map[string]any held as a sequence of entries.
MapSet(m, key, val) ==
    IF \E i \in 1..Len(m) : m[i].name = key
    THEN [i \in 1..Len(m) |-> IF m[i].name = key THEN Ent(key, val) ELSE m[i]]
    ELSE Append(m, Ent(key, val))

\* m[key]
MapGet(m, key) ==
    (CHOOSE i \in 1..Len(m) : m[i].name = key) 

RECURSIVE FromEntries(_, _)
FromEntries(es, m) ==
    IF Len(es) = 0 THEN m
    ELSE Bind(MapSet(m, es[1].name, es[1].val),
              LAMBDA m2 : FromEntries(Tail(es), m2))

convertReflectStructToMapStringAny(v) ==
    Bind([i \in 1..Len(v.fields) |-> Ent(v.fields[i].name, v.fields[i].val)],
         LAMBDA es : FromEntries(es, <<>>))

convertReflectMapToMapStringAny(m) ==
    FromEntries(m.entries, <<>>)

convertReflectSliceToMapStringAny(s) ==
    Bind([i \in 1..Len(s.elems) |-> Ent(Itoa(i - 1), s.elems[i])],
         LAMBDA es : FromEntries(es, <<>>))

validateEname(ename) ==
    \A i \in 1..Len(ename) : ename[i] /= 0

\* A classifier that does not follow pointers: a pointer is a value of an
\* unsupported type.
getEtypeOfPointee(val) ==
    IF val.kind = "nil" THEN [st |-> "panic", et |-> 0]
    ELSE CASE val.kind = "float64" -> [st |-> "ok", et |-> kEtypeDouble]
           [] val.kind = "string" -> [st |-> "ok", et |-> kEtypeString]
           [] val.kind = "bytes" -> [st |-> "ok", et |-> kEtypeBinary]
           [] val.kind = "bool" -> [st |-> "ok", et |-> kEtypeBoolean]
           [] val.kind = "time" -> [st |-> "ok", et |-> kEtypeUtcDatetime]
           [] val.kind = "int32" -> [st |-> "ok", et |-> kEtypeInt32]
           [] val.kind = "int" -> [st |-> "ok", et |-> kEtypeInt64]
           [] val.kind = "int64" -> [st |-> "ok", et |-> kEtypeInt64]
           [] val.kind = "map" -> [st |-> "ok", et |-> kEtypeDocument]
           [] val.kind = "struct" -> [st |-> "ok", et |-> kEtypeDocument]
           [] val.kind = "slice" -> [st |-> "ok", et |-> kEtypeArray]
           [] OTHER -> [st |-> "error", et |-> 0]

RECURSIVE getEtype(_)
\* [st, et]; "panic" where reflect dereferences a nil.
getEtype(val) ==
    IF val.kind = "nil" THEN [st |-> "panic", et |-> 0]
    ELSE IF val.kind = "ptr" THEN
        IF val.isnil THEN [st |-> "panic", et |-> 0] ELSE getEtype(val.at)
    ELSE CASE val.kind = "float64" -> [st |-> "ok", et |-> kEtypeDouble]
           [] val.kind = "string" -> [st |-> "ok", et |-> kEtypeString]
           [] val.kind = "bytes" -> [st |-> "ok", et |-> kEtypeBinary]
           [] val.kind = "bool" -> [st |-> "ok", et |-> kEtypeBoolean]
           [] val.kind = "time" -> [st |-> "ok", et |-> kEtypeUtcDatetime]
           [] val.kind = "int32" -> [st |-> "ok", et |-> kEtypeInt32]
           [] val.kind = "int" -> [st |-> "ok", et |-> kEtypeInt64]
           [] val.kind = "int64" -> [st |-> "ok", et |-> kEtypeInt64]
           [] val.kind = "map" -> [st |-> "ok", et |-> kEtypeDocument]
           [] val.kind = "struct" -> [st |-> "ok", et |-> kEtypeDocument]
           [] val.kind = "slice" -> [st |-> "ok", et |-> kEtypeArray]
           [] OTHER -> [st |-> "error", et |-> 0]

appendInt32(buffer, val) == buffer \o convertInt32ToBytes(val)
appendInt64(buffer, val) == buffer \o convertInt64ToBytes(val)
appendFloat64(buffer, val) == buffer \o convertFloat64ToBytes(val)
appendBoolean(buffer, val) == buffer \o (IF val THEN <<1>> ELSE <<0>>)

\* The whole seconds as milliseconds, the part of a second dropped.
unixSecondsAsMilli(t) ==
    IF "wide" \in DOMAIN t THEN t.wide
    ELSE Int64Of(t.sec * 1000)

\* time.Time.UnixMilli: seconds*1000 + nanoseconds/1e6, as an int64.
UnixMilli(t) ==
    IF "wide" \in DOMAIN t THEN t.wide
    ELSE Int64Of(t.sec * 1000 + (t.nsec \div 1000000))

RECURSIVE appendAny(_, _)
RECURSIVE appendMap(_, _)
RECURSIVE appendOther(_, _)
RECURSIVE appendElement(_, _, _)
RECURSIVE appendElements(_, _, _, _)

appendAny(buffer, val_any) ==
    IF val_any.kind = "nil" THEN Panic
    ELSE IF val_any.kind = "ptr" THEN
        IF val_any.isnil THEN Panic ELSE appendAny(buffer, val_any.at)
    ELSE CASE val_any.kind = "bytes" ->
                IF Len(val_any.bin) > MaxInt32 THEN Err(buffer)
                ELSE Ok(appendInt32(buffer, Len(val_any.bin))
                        \o <<kBinarySubtype>> \o val_any.bin)
           [] val_any.kind = "string" ->
                IF Len(val_any.s) + 1 > MaxInt32 THEN Err(buffer)
                ELSE Ok(appendInt32(buffer, Len(val_any.s) + 1)
                        \o val_any.s \o <<kNullTerminator>>)
           [] val_any.kind = "float64" -> Ok(appendFloat64(buffer, val_any.f))
           [] val_any.kind = "bool" -> Ok(appendBoolean(buffer, val_any.b))
           [] val_any.kind = "time" -> Ok(appendInt64(buffer, UnixMilli(val_any)))
           [] val_any.kind = "int32" -> Ok(appendInt32(buffer, val_any.i32))
           [] val_any.kind = "int" -> Ok(appendInt64(buffer, val_any.i64))
           [] val_any.kind = "int64" -> Ok(appendInt64(buffer, val_any.i64))
           [] OTHER -> appendOther(buffer, val_any)

\* One turn of the loop of appendMap: the element named key.
appendElement(buffer, doc_, key) ==
    IF ~validateEname(key) THEN ErrWhy(buffer, "invalid ename")
    ELSE Bind(doc_[MapGet(doc_, key)].val, LAMBDA val :
         Bind(getEtype(val), LAMBDA et :
            IF et.st = "panic" THEN Panic
            ELSE IF et.st = "error" THEN ErrWhy(buffer, "unsupported type")
            ELSE appendAny(buffer \o <<et.et>> \o key \o <<kNullTerminator>>, val)))

\* The loop of appendMap over the sorted keys, from the i-th on.
appendElements(buffer, doc_, keys, i) ==
    IF i > Len(keys) THEN Ok(buffer)
    ELSE Bind(appendElement(buffer, doc_, keys[i]), LAMBDA r :
            IF r.st /= "ok" THEN r
            ELSE appendElements(r.buf, doc_, keys, i + 1))

\* buffer with the four bytes at offset startPos overwritten by bin.
Patch(buffer, startPos, bin) ==
    [j \in 1..Len(buffer) |->
        IF j > startPos /\ j <= startPos + 4 THEN bin[j - startPos] ELSE buffer[j]]

appendMap(buffer, doc_) ==
    Bind(Len(buffer), LAMBDA startPos :
    Bind(sortedKeys(doc_), LAMBDA keys :
    Bind(appendElements(appendInt32(buffer, 0), doc_, keys, 1), LAMBDA r :
        IF r.st /= "ok" THEN r
        ELSE Bind(r.buf \o <<kEtypeDone>>, LAMBDA done :
             Bind(Len(done) - startPos, LAMBDA totalSize :
                IF totalSize < 0 \/ totalSize > MaxInt32 THEN Err(<<>>)
                ELSE Ok(Patch(done, startPos, convertInt32ToBytes(totalSize))))))))

appendOther(buffer, val_any) ==
    CASE val_any.kind = "map" ->
            IF RKind(val_any.keyT) /= "string" THEN ErrWhy(buffer, "map key")
            ELSE Bind(convertReflectMapToMapStringAny(val_any),
                      LAMBDA doc_ : appendMap(buffer, doc_))
      [] val_any.kind = "slice" ->
            Bind(convertReflectSliceToMapStringAny(val_any),
                 LAMBDA doc_ : appendMap(buffer, doc_))
      [] val_any.kind = "struct" ->
            Bind(convertReflectStructToMapStringAny(val_any),
                 LAMBDA doc_ : appendMap(buffer, doc_))
      [] OTHER -> ErrWhy(buffer, "unable to serialize")

RECURSIVE Marshal(_)
\* [st, buf]: buf is the returned byte slice (nil on an error).
Marshal(document) ==
    IF document.kind = "nil" THEN Panic
    ELSE IF document.kind = "ptr" THEN
        IF document.isnil THEN Panic ELSE Marshal(document.at)
    ELSE IF RKind(TypeOf(document)) /= "map" /\ RKind(TypeOf(document)) /= "struct"
    THEN ErrWhy(<<>>, "top level")
    ELSE Bind(appendAny(<<>>, document), LAMBDA r :
            IF r.st = "ok" THEN r
            ELSE IF r.st = "panic" THEN Panic
            ELSE ErrWhy(<<>>, r.why))

----------------------------------------------------------------------------
(* The decoder, deserialize.go.  A read returns [st, pos, n, val]: the     *)
(* status, the buffer offset after it, the byte count it reports           *)
(* (numread) and the pointee as the read left it.                          *)

DOk(pos, n, val) == [st |-> "ok", pos |-> pos, n |-> n, val |-> val]
DErrWhy(val, why) ==
    [st |-> "error", pos |-> 0, n |-> 0, val |-> val, why |-> why]
DErr(val) == DErrWhy(val, "read")
DPanic(val) == [st |-> "panic", pos |-> 0, n |-> 0, val |-> val]

\* What reflect.Indirect gives for a nil pointer: the zero reflect.Value.
Invalid == [kind |-> "invalid"]

\* The zero time.Time, 0001-01-01T00:00:00Z: -62135596800000 ms from the epoch.
ZeroTime == VTimeWide([hi |-> -14468, lo |-> -304928768])

\* time.Time's own (unexported) fields, as FieldByName finds them.
TimeFields == <<Fld(<<119, 97, 108, 108>>, [kind |-> "uint64"]),
                Fld(<<101, 120, 116>>, TInt64),
                Fld(<<108, 111, 99>>, TPtr([kind |-> "struct", fields |-> <<>>]))>>

RECURSIVE ZeroValue(_)
\* reflect.New(t).Elem(): the zero value of a type.
ZeroValue(t) ==
    CASE t.kind = "float64" -> VFloat64(Int64Of(0))
      [] t.kind = "string" -> VString(<<>>)
      [] t.kind = "bytes" -> VNilBytes
      [] t.kind = "bool" -> VBool(FALSE)
      [] t.kind = "time" -> ZeroTime
      [] t.kind = "int32" -> VInt32(0)
      [] t.kind = "int64" -> VInt64(Int64Of(0))
      [] t.kind = "int" -> VInt(Int64Of(0))
      [] t.kind = "interface" -> VNil
      [] t.kind = "slice" -> VNilSlice(t.elem)
      [] t.kind = "map" -> VNilMap(t.key, t.elem)
      [] t.kind = "ptr" -> VNilPtr(t.elem)
      [] t.kind = "struct" ->
            VStruct([i \in 1..Len(t.fields) |->
                        FV(t.fields[i].name, t.fields[i].type,
                           ZeroValue(t.fields[i].type))])
      [] OTHER -> [kind |-> t.kind, u |-> 0]

\* binary.Read of a 4-byte value: [st, v].
readInt32(buffer, pos) ==
    IF Len(buffer) - pos < kInt32Size THEN [st |-> "error", v |-> 0]
    ELSE [st |-> "ok", v |-> BytesToInt32(SubSeq(buffer, pos + 1, pos + 4))]

\* binary.Read of an 8-byte value: [st, v].
readInt64(buffer, pos) ==
    IF Len(buffer) - pos < kInt64Size THEN [st |-> "error", v |-> Int64Of(0)]
    ELSE [st |-> "ok", v |-> BytesToInt64(SubSeq(buffer, pos + 1, pos + 8))]

readFloat64(buffer, pos, cur) ==
    LET r == readInt64(buffer, pos)
    IN  IF r.st /= "ok" THEN DErr(cur)
        ELSE DOk(pos + kFloat64Size, kFloat64Size, VFloat64(r.v))

\* [st, et]
readEtype(buffer, pos) ==
    IF pos >= Len(buffer) THEN [st |-> "error", et |-> 0]
    ELSE [st |-> "ok", et |-> buffer[pos + 1]]

\* [st, ename, n]: the bytes up to the next zero byte.
readEname(buffer, pos) ==
    IF \A j \in (pos + 1)..Len(buffer) : buffer[j] /= 0
    THEN [st |-> "error", ename |-> <<>>, n |-> 0]
    ELSE LET z == CHOOSE j \in (pos + 1)..Len(buffer) :
                      /\ buffer[j] = 0
                      /\ \A k \in (pos + 1)..(j - 1) : buffer[k] /= 0
         IN  [st |-> "ok", ename |-> SubSeq(buffer, pos + 1, z - 1), n |-> z - pos]

\* bytes.Buffer.Read into a slice of length want, from offset pos:
\* [st, n]; an empty buffer gives io.EOF unless want is 0.
BufferRead(buffer, pos, want) ==
    LET avail == Len(buffer) - pos
    IN  IF avail <= 0 THEN
            IF want = 0 THEN [st |-> "ok", n |-> 0] ELSE [st |-> "error", n |-> 0]
        ELSE [st |-> "ok", n |-> IF want < avail THEN want ELSE avail]

readEstring(buffer, pos, cur) ==
    LET sz == readInt32(buffer, pos)
    IN  IF sz.st /= "ok" THEN DErr(cur)
        ELSE IF sz.v - 1 < 0 THEN DPanic(cur)      \* make([]byte, negative)
        ELSE
            LET rd == BufferRead(buffer, pos + 4, sz.v - 1)
                p2 == pos + 4 + rd.n
            IN  IF rd.st /= "ok" THEN DErr(cur)
                ELSE IF rd.n /= sz.v - 1 THEN DErr(cur)
                ELSE IF p2 >= Len(buffer) THEN DErr(cur)
                ELSE IF buffer[p2 + 1] /= 0 THEN DErr(cur)
                ELSE DOk(p2 + 1, sz.v + kInt32Size,
                         VString(SubSeq(buffer, pos + 5, p2)))

readEbinary(buffer, pos, cur) ==
    LET sz == readInt32(buffer, pos)
    IN  IF sz.st /= "ok" THEN DErr(cur)
        ELSE IF pos + 4 >= Len(buffer) THEN DErr(cur)   \* the subtype byte
        ELSE IF sz.v < 0 THEN DPanic(cur)               \* make([]byte, negative)
        ELSE
            LET rd == BufferRead(buffer, pos + 5, sz.v)
                p2 == pos + 5 + rd.n
            IN  IF rd.st /= "ok" THEN DErr(cur)
                ELSE IF rd.n /= sz.v THEN DErr(cur)
                ELSE DOk(p2, sz.v + kInt32Size + kSubtypeSize,
                         VBytes(SubSeq(buffer, pos + 6, p2)))

readBoolean(buffer, pos, cur) ==
    IF pos >= Len(buffer) THEN DErr(cur)
    ELSE IF buffer[pos + 1] = 0 THEN DOk(pos + 1, kInt8Size, VBool(FALSE))
    ELSE IF buffer[pos + 1] = 1 THEN DOk(pos + 1, kInt8Size, VBool(TRUE))
    ELSE DErr(cur)

\* Go's integer division and remainder: truncated toward zero.
GoDiv(a, b) == IF a >= 0 THEN a \div b ELSE -((-a) \div b)
GoRem(a, b) == a - b * GoDiv(a, b)

\* time.Unix(sec, nsec): nsec brought into [0, 1e9).
TimeUnix(sec, nsec) ==
    IF nsec < 0 THEN VTime(sec - 1, nsec + 1000000000) ELSE VTime(sec, nsec)

\* time.Unix(ms/1e3, (ms%1e3)*1e6).UTC()
TimeOfMillis(ms) ==
    IF (ms.hi = 0 /\ ms.lo >= 0) \/ (ms.hi = -1 /\ ms.lo < 0)
    THEN TimeUnix(GoDiv(ms.lo, 1000), GoRem(ms.lo, 1000) * 1000000)
    ELSE VTimeWide(ms)

\* A validation that lets every pairing through.
validateNothing(et, rtype) == TRUE

\* A validation that lets an int32 into any integer and an int64 into an int32.
validateWidening(et, rtype) ==
    IF rtype = TAny THEN TRUE
    ELSE CASE et = kEtypeDouble -> RKind(rtype) = "float64"
           [] et = kEtypeString -> RKind(rtype) = "string"
           [] et = kEtypeBinary -> rtype = TBytes
           [] et = kEtypeBoolean -> RKind(rtype) = "bool"
           [] et = kEtypeUtcDatetime -> rtype = TTime
           [] et = kEtypeInt32 -> RKind(rtype) \in {"int32", "int64", "int"}
           [] et = kEtypeInt64 -> RKind(rtype) \in {"int32", "int64", "int"}
           [] et = kEtypeArray -> RKind(rtype) = "slice"
           [] et = kEtypeDocument -> RKind(rtype) \in {"struct", "map"}
           [] OTHER -> TRUE

validateEtypeCanBeDeserializeToRtype(et, rtype) ==
    IF rtype = TAny THEN TRUE
    ELSE CASE et = kEtypeDouble -> RKind(rtype) = "float64"
           [] et = kEtypeString -> RKind(rtype) = "string"
           [] et = kEtypeBinary -> rtype = TBytes
           [] et = kEtypeBoolean -> RKind(rtype) = "bool"
           [] et = kEtypeUtcDatetime -> rtype = TTime
           [] et = kEtypeInt32 -> RKind(rtype) = "int32"
           [] et = kEtypeInt64 -> RKind(rtype) \in {"int64", "int"}
           [] et = kEtypeArray -> RKind(rtype) = "slice"
           [] et = kEtypeDocument -> RKind(rtype) \in {"struct", "map"}
           [] OTHER -> TRUE

\* A temporary for an int64 element that is an int whatever is declared.
intTemporary(elem) == [st |-> "ok", type |-> TInt, val |-> ZeroValue(TInt)]

\* The temporary for an int64 element: an int when the container declares
\* int, an int64 otherwise.
int64Temporary(elem) ==
    IF RKind(elem) = "int"
    THEN [st |-> "ok", type |-> TInt, val |-> ZeroValue(TInt)]
    ELSE [st |-> "ok", type |-> TInt64, val |-> ZeroValue(TInt64)]

\* The temporary readMap and readArray make for an element of tag et:
\* [st, type, val].  cont is the container's type, elem its element type.
tmpptr(et, cont, elem, dyn) ==
    CASE et = kEtypeDouble -> [st |-> "ok", type |-> TFloat64, val |-> ZeroValue(TFloat64)]
      [] et = kEtypeString -> [st |-> "ok", type |-> TString, val |-> ZeroValue(TString)]
      [] et = kEtypeBinary -> [st |-> "ok", type |-> TBytes, val |-> ZeroValue(TBytes)]
      [] et = kEtypeBoolean -> [st |-> "ok", type |-> TBool, val |-> ZeroValue(TBool)]
      [] et = kEtypeUtcDatetime -> [st |-> "ok", type |-> TTime, val |-> ZeroValue(TTime)]
      [] et = kEtypeInt32 -> [st |-> "ok", type |-> TInt32, val |-> ZeroValue(TInt32)]
      [] et = kEtypeInt64 -> int64Temporary(elem)
      [] et = kEtypeDocument ->
            IF RKind(elem) = "struct"
            THEN [st |-> "ok", type |-> elem, val |-> ZeroValue(elem)]
            ELSE IF RKind(elem) = "map"
            THEN [st |-> "ok", type |-> elem, val |-> VMap(elem.key, elem.elem, <<>>)]
            ELSE IF cont /= dyn
            THEN [st |-> "error", type |-> TAny, val |-> VNil,
                  why |-> "cannot deserialize"]
            ELSE [st |-> "ok", type |-> TMap(TString, TAny),
                  val |-> VMap(TString, TAny, <<>>)]
      [] et = kEtypeArray ->
            IF RKind(elem) = "slice"
            THEN [st |-> "ok", type |-> elem,
                  val |-> IF elem = TBytes THEN VBytes(<<>>)
                          ELSE VSlice(elem.elem, <<>>)]
            ELSE IF cont /= dyn
            THEN [st |-> "error", type |-> TAny, val |-> VNil,
                  why |-> "cannot deserialize"]
            ELSE [st |-> "ok", type |-> TSlice(TAny), val |-> VSlice(TAny, <<>>)]
      [] OTHER -> [st |-> "error", type |-> TAny, val |-> VNil,
                   why |-> "unsupported etype"]

\* A lookup that takes the first field whatever the name.
firstField(fs, ename) == IF Len(fs) > 0 THEN 1 ELSE 0

\* A default that takes an element of an unknown tag for four bytes to skip.
skipFourBytes(pos, cur) == DOk(pos + kInt32Size, kInt32Size, cur)

\* The default of readEvalue's switch on the tag.
unsupportedEtype(pos, cur) == DErrWhy(cur, "unsupported etype")

\* reflect.Value.FieldByName: the index of the field, 0 when there is none.
FieldByName(fs, ename) ==
    IF \E i \in 1..Len(fs) : fs[i].name = ename
    THEN CHOOSE i \in 1..Len(fs) : fs[i].name = ename
    ELSE 0

RECURSIVE readStruct(_, _, _)
RECURSIVE readStructStep(_, _, _, _, _)
RECURSIVE readStructLoop(_, _, _, _, _)
RECURSIVE readMapStep(_, _, _, _, _, _)
RECURSIVE readArrayStep(_, _, _, _, _, _)
RECURSIVE readMap(_, _, _, _)
RECURSIVE readMapLoop(_, _, _, _, _, _)
RECURSIVE readArray(_, _, _, _)
RECURSIVE readArrayLoop(_, _, _, _, _, _)
RECURSIVE readEvalue(_, _, _, _, _)

\* ptr_any points at a variable of type t holding cur.
readEvalue(buffer, pos, t, cur, et) ==
    CASE et = kEtypeDouble ->
            IF t /= TFloat64 THEN DPanic(cur) ELSE readFloat64(buffer, pos, cur)
      [] et = kEtypeString ->
            IF t /= TString THEN DPanic(cur) ELSE readEstring(buffer, pos, cur)
      [] et = kEtypeBinary ->
            IF t /= TBytes THEN DPanic(cur) ELSE readEbinary(buffer, pos, cur)
      [] et = kEtypeBoolean ->
            IF t /= TBool THEN DPanic(cur) ELSE readBoolean(buffer, pos, cur)
      [] et = kEtypeUtcDatetime ->
            IF t /= TTime THEN DPanic(cur)
            ELSE LET r == readInt64(buffer, pos)
                 IN  IF r.st /= "ok" THEN DErr(cur)
                     ELSE DOk(pos + kInt64Size, kInt64Size, TimeOfMillis(r.v))
      [] et = kEtypeInt32 ->
            IF t /= TInt32 THEN DPanic(cur)
            ELSE LET r == readInt32(buffer, pos)
                 IN  IF r.st /= "ok" THEN DErr(cur)
                     ELSE DOk(pos + kInt32Size, kInt32Size, VInt32(r.v))
      [] et = kEtypeInt64 ->
            IF t /= TInt64 /\ t /= TInt THEN DErrWhy(cur, "cannot convert")
            ELSE LET r == readInt64(buffer, pos)
                 IN  IF r.st /= "ok" THEN DErr(cur)
                     ELSE DOk(pos + kInt64Size, kInt64Size,
                              IF t = TInt THEN VInt(r.v) ELSE VInt64(r.v))
      [] et = kEtypeDocument ->
            IF RKind(t) = "struct" THEN readStruct(buffer, pos, cur)
            ELSE IF RKind(t) = "map" THEN readMap(buffer, pos, t, cur)
            ELSE DErrWhy(cur, "unsupported type")
      [] et = kEtypeArray -> readArray(buffer, pos, t, cur)
      [] OTHER -> unsupportedEtype(pos, cur)

\* The fields of the struct value cur (time.Time included).
FieldsOf(cur) == IF cur.kind = "time" THEN TimeFields ELSE cur.fields

\* A turn of a read loop returns [st, pos, n, val] with st "more" when the
\* loop goes on: n is then actualSize, val the target so far.
DMore(pos, n, val) == [st |-> "more", pos |-> pos, n |-> n, val |-> val]

\* The end of a document: its size against its length prefix.
readDone(pos, expectedSize, actualSize, cur) ==
    IF actualSize /= expectedSize THEN DErrWhy(cur, "size mismatch")
    ELSE DOk(pos, actualSize, cur)

\* One turn of the loop of readStruct.
readStructStep(buffer, pos, expectedSize, actualSize, cur) ==
    Bind(readEtype(buffer, pos), LAMBDA et :
    IF et.st /= "ok" THEN DErr(cur)
    ELSE IF et.et = kEtypeDone
    THEN readDone(pos + 1, expectedSize, actualSize + kEtypeSize, cur)
    ELSE Bind(readEname(buffer, pos + 1), LAMBDA en :
        IF en.st /= "ok" THEN DErr(cur)
        ELSE IF cur.kind = "invalid" THEN DPanic(cur)  \* FieldByName on the zero Value
        ELSE Bind(FieldByName(FieldsOf(cur), en.ename), LAMBDA i :
            IF i = 0 THEN DErrWhy(cur, "field not found")
            ELSE IF ~validateEtypeCanBeDeserializeToRtype(et.et, FieldsOf(cur)[i].type)
            THEN DErrWhy(cur, "cannot convert")
            ELSE IF cur.kind = "time" THEN DPanic(cur) \* Interface() of an unexported field
            ELSE Bind(readEvalue(buffer, pos + 1 + en.n,
                                 cur.fields[i].type, cur.fields[i].val, et.et),
                      LAMBDA r :
                 Bind([cur EXCEPT !.fields[i].val = r.val], LAMBDA upd :
                    IF r.st = "panic" THEN DPanic(upd)
                    ELSE IF r.st /= "ok" THEN DErrWhy(upd, r.why)
                    ELSE DMore(r.pos, actualSize + kEtypeSize + en.n + r.n, upd))))))

readStructLoop(buffer, pos, expectedSize, actualSize, cur) ==
    Bind(readStructStep(buffer, pos, expectedSize, actualSize, cur), LAMBDA r :
        IF r.st = "more" THEN readStructLoop(buffer, r.pos, expectedSize, r.n, r.val)
        ELSE r)

\* A readStruct that starts from the zero value of the struct's type.
readStructFresh(buffer, pos, cur) ==
    Bind(readInt32(buffer, pos), LAMBDA sz :
        IF sz.st /= "ok" THEN DErr(cur)
        ELSE IF cur.kind /= "struct"
        THEN readStructLoop(buffer, pos + 4, sz.v, kInt32Size, cur)
        ELSE Bind(ZeroValue(TypeOf(cur)), LAMBDA zero :
                readStructLoop(buffer, pos + 4, sz.v, kInt32Size, zero)))

readStruct(buffer, pos, cur) ==
    Bind(readInt32(buffer, pos), LAMBDA sz :
        IF sz.st /= "ok" THEN DErr(cur)
        ELSE readStructLoop(buffer, pos + 4, sz.v, kInt32Size, cur))

\* One turn of the loop of readMap.
readMapStep(buffer, pos, expectedSize, actualSize, t, cur) ==
    Bind(readEtype(buffer, pos), LAMBDA et :
    IF et.st /= "ok" THEN DErr(cur)
    ELSE IF et.et = kEtypeDone
    THEN readDone(pos + 1, expectedSize, actualSize + kEtypeSize, cur)
    ELSE Bind(readEname(buffer, pos + 1), LAMBDA en :
        IF en.st /= "ok" THEN DErr(cur)
        ELSE IF ~validateEtypeCanBeDeserializeToRtype(et.et, t.elem)
        THEN DErrWhy(cur, "cannot convert")
        ELSE Bind(tmpptr(et.et, t, t.elem, TMap(TString, TAny)), LAMBDA tmp :
            IF tmp.st /= "ok" THEN DErrWhy(cur, tmp.why)
            ELSE Bind(readEvalue(buffer, pos + 1 + en.n, tmp.type, tmp.val, et.et),
                      LAMBDA r :
                    IF r.st = "panic" THEN DPanic(cur)
                    ELSE IF r.st /= "ok" THEN DErrWhy(cur, r.why)
                    ELSE DMore(r.pos, actualSize + kEtypeSize + en.n + r.n,
                               [cur EXCEPT !.entries =
                                    MapSet(cur.entries, en.ename, r.val)])))))

readMapLoop(buffer, pos, expectedSize, actualSize, t, cur) ==
    Bind(readMapStep(buffer, pos, expectedSize, actualSize, t, cur), LAMBDA r :
        IF r.st = "more" THEN readMapLoop(buffer, r.pos, expectedSize, r.n, t, r.val)
        ELSE r)

\* A readMap that takes keys of any type for strings.
readMapAnyKey(buffer, pos, t, cur) ==
    Bind(readInt32(buffer, pos), LAMBDA sz :
        IF sz.st /= "ok" THEN DErr(cur)
        ELSE IF cur.kind = "invalid" THEN DPanic(cur)
        ELSE Bind(VMap(t.key, t.elem, <<>>), LAMBDA fresh :
                readMapLoop(buffer, pos + 4, sz.v, kInt32Size, t, fresh)))

\* A readMap that reads into the caller's map as it finds it.
readMapInPlace(buffer, pos, t, cur) ==
    IF RKind(t.key) /= "string" THEN DErrWhy(cur, "map key")
    ELSE Bind(readInt32(buffer, pos), LAMBDA sz :
            IF sz.st /= "ok" THEN DErr(cur)
            ELSE IF cur.kind = "invalid" THEN DPanic(cur)
            ELSE readMapLoop(buffer, pos + 4, sz.v, kInt32Size, t, cur))

readMap(buffer, pos, t, cur) ==
    IF RKind(t.key) /= "string" THEN DErrWhy(cur, "map key")
    ELSE Bind(readInt32(buffer, pos), LAMBDA sz :
            IF sz.st /= "ok" THEN DErr(cur)
            ELSE IF cur.kind = "invalid" THEN DPanic(cur)   \* Set on the zero Value
            ELSE Bind(VMap(t.key, t.elem, <<>>), LAMBDA fresh :
                    readMapLoop(buffer, pos + 4, sz.v, kInt32Size, t, fresh)))

\* An append that puts the new element first.
slicePrepend(arr, v) ==
    IF arr.kind = "bytes" THEN [arr EXCEPT !.bin = <<v.u>> \o @]
    ELSE [arr EXCEPT !.elems = <<v>> \o @]

\* reflect.Append(arr, v) on a slice ([]byte included).
SliceAppend(arr, v) ==
    IF arr.kind = "bytes" THEN [arr EXCEPT !.bin = Append(@, v.u)]
    ELSE [arr EXCEPT !.elems = Append(@, v)]

\* A turn of the loop of readArray that takes the name for an index and
\* refuses one that is not decimal.
readArrayStepIndexed(buffer, pos, expectedSize, actualSize, t, cur) ==
    Bind(readEtype(buffer, pos), LAMBDA et :
    IF et.st /= "ok" THEN DErr(cur)
    ELSE IF et.et = kEtypeDone
    THEN readDone(pos + 1, expectedSize, actualSize + kEtypeSize, cur)
    ELSE Bind(readEname(buffer, pos + 1), LAMBDA en :
        IF en.st /= "ok" THEN DErr(cur)
        ELSE IF \E j \in 1..Len(en.ename) : en.ename[j] \notin 48..57
        THEN DErrWhy(cur, "cannot convert")
        ELSE IF ~validateEtypeCanBeDeserializeToRtype(et.et, SliceElem(t))
        THEN DErrWhy(cur, "cannot convert")
        ELSE Bind(tmpptr(et.et, t, SliceElem(t), TSlice(TAny)), LAMBDA tmp :
            IF tmp.st /= "ok" THEN DErrWhy(cur, tmp.why)
            ELSE Bind(readEvalue(buffer, pos + 1 + en.n, tmp.type, tmp.val, et.et),
                      LAMBDA r :
                    IF r.st = "panic" THEN DPanic(cur)
                    ELSE IF r.st /= "ok" THEN DErrWhy(cur, r.why)
                    ELSE DMore(r.pos, actualSize + kEtypeSize + en.n + r.n,
                               SliceAppend(cur, r.val))))))

\* One turn of the loop of readArray.
readArrayStep(buffer, pos, expectedSize, actualSize, t, cur) ==
    Bind(readEtype(buffer, pos), LAMBDA et :
    IF et.st /= "ok" THEN DErr(cur)
    ELSE IF et.et = kEtypeDone
    THEN readDone(pos + 1, expectedSize, actualSize + kEtypeSize, cur)
    ELSE Bind(readEname(buffer, pos + 1), LAMBDA en :
        IF en.st /= "ok" THEN DErr(cur)
        ELSE IF ~validateEtypeCanBeDeserializeToRtype(et.et, SliceElem(t))
        THEN DErrWhy(cur, "cannot convert")
        ELSE Bind(tmpptr(et.et, t, SliceElem(t), TSlice(TAny)), LAMBDA tmp :
            IF tmp.st /= "ok" THEN DErrWhy(cur, tmp.why)
            ELSE Bind(readEvalue(buffer, pos + 1 + en.n, tmp.type, tmp.val, et.et),
                      LAMBDA r :
                    IF r.st = "panic" THEN DPanic(cur)
                    ELSE IF r.st /= "ok" THEN DErrWhy(cur, r.why)
                    ELSE DMore(r.pos, actualSize + kEtypeSize + en.n + r.n,
                               SliceAppend(cur, r.val))))))

readArrayLoop(buffer, pos, expectedSize, actualSize, t, cur) ==
    Bind(readArrayStep(buffer, pos, expectedSize, actualSize, t, cur), LAMBDA r :
        IF r.st = "more" THEN readArrayLoop(buffer, r.pos, expectedSize, r.n, t, r.val)
        ELSE r)

readArray(buffer, pos, t, cur) ==
    IF RKind(t) /= "slice" THEN DPanic(cur)     \* reflect.Type.Elem of a non-slice
    ELSE Bind(readInt32(buffer, pos), LAMBDA sz :
            IF sz.st /= "ok" THEN DErr(cur)
            ELSE Bind(IF t = TBytes THEN VBytes(<<>>) ELSE VSlice(t.elem, <<>>),
                      LAMBDA fresh :
                    readArrayLoop(buffer, pos + 4, sz.v, kInt32Size, t, fresh)))

\* What Unmarshal returns: [st, val, numread, why].
UErr(val, numread, why) ==
    [st |-> "error", val |-> val, numread |-> numread, why |-> why]
UEnd(st, val, numread) ==
    [st |-> st, val |-> val, numread |-> numread, why |-> ""]

\* What Unmarshal would return did it not count the bytes it consumed.
returnUncounted(r, marshalled) ==
    IF r.st = "panic" THEN UEnd("panic", r.val, 0)
    ELSE IF r.st /= "ok" THEN UErr(r.val, 0, r.why)
    ELSE UEnd("ok", r.val, r.n)

\* The end of Unmarshal: the error of the top-level read, if any, then the
\* bytes consumed against the length of the input.
returnCounted(r, marshalled) ==
    IF r.st = "panic" THEN UEnd("panic", r.val, 0)
    ELSE IF r.st /= "ok" THEN UErr(r.val, 0, r.why)
    ELSE IF r.n /= Len(marshalled) THEN UErr(r.val, r.n, "did not consume all bytes")
    ELSE UEnd("ok", r.val, r.n)

\* Unmarshal(marshalled, ptr): [st, val, numread, why]; val is what ptr
\* points at after the call (ptr itself when it is no pointer).
Unmarshal(marshalled, ptr) ==
    IF ptr.kind = "nil" THEN UEnd("panic", ptr, 0)
    ELSE IF ptr.kind /= "ptr" THEN UErr(ptr, 0, "not a pointer")
    ELSE Bind(IF ptr.isnil THEN Invalid ELSE ptr.at, LAMBDA cur :
         Bind(RKind(ptr.to), LAMBDA k :
            IF k /= "struct" /\ k /= "map" THEN UErr(cur, 0, "top level")
            ELSE Bind(IF k = "struct" THEN readStruct(marshalled, 0, cur)
                      ELSE readMap(marshalled, 0, ptr.to, cur), LAMBDA r :
                    returnCounted(r, marshalled))))

----------------------------------------------------------------------------
(* Comparing Go values. *)

RECURSIVE Canon(_)
RECURSIVE CanonEntries(_, _)

\* The entries es in the order of the sorted key list ks, each value in
\* canonical form.
CanonEntries(es, ks) ==
    [i \in 1..Len(ks) |-> Ent(ks[i], Canon(es[MapGet(es, ks[i])].val))]

\* v with what == on Go values does not look at removed: the order in which
\* a map's entries are held, and whether an empty map or slice is nil.
Canon(v) ==
    CASE v.kind = "map" ->
            [v EXCEPT !.entries = CanonEntries(v.entries, sortedKeys(v.entries)),
                      !.null = FALSE]
      [] v.kind = "slice" ->
            [v EXCEPT !.elems = [i \in 1..Len(v.elems) |-> Canon(v.elems[i])],
                      !.null = FALSE]
      [] v.kind = "bytes" -> [v EXCEPT !.null = FALSE]
      [] v.kind = "struct" ->
            [v EXCEPT !.fields = [i \in 1..Len(v.fields) |->
                        [v.fields[i] EXCEPT !.val = Canon(v.fields[i].val)]]]
      [] v.kind = "ptr" -> IF v.isnil THEN v ELSE [v EXCEPT !.at = Canon(v.at)]
      [] OTHER -> v

SameValue(a, b) == Canon(a) = Canon(b)

RECURSIVE Deref(_)
\* The value behind any number of non-nil pointers.
Deref(v) == IF v.kind = "ptr" /\ ~v.isnil THEN Deref(v.at) ELSE v

----------------------------------------------------------------------------
(* Sample data. *)

MaxSliceLen == 11   \* longest slice of the sample documents
MaxExtra == 2       \* most bytes appended after a document

S_A == <<65>>
S_B == <<66>>
S_X == <<88>>
S_B_NUL == <<66, 0>>      \* a name with a zero byte in it
S_hi == <<104, 105>>
S_BSON == <<66, 83, 79, 78>>
S_awesome == <<97, 119, 101, 115, 111, 109, 101>>
\* 5.05 as a float64: 0x4014333333333333
F_5_05 == [hi |-> 1075065651, lo |-> 858993459]

\* The example of bsonspec.org, as the README and the example tests give it.
Canonical == <<49,0,0,0, 4,66,83,79,78,0, 38,0,0,0,
               2,48,0, 8,0,0,0, 97,119,101,115,111,109,101,0,
               1,49,0, 51,51,51,51,51,51,20,64,
               16,50,0, 194,7,0,0, 0, 0>>

ExampleElems == <<VString(S_awesome), VFloat64(F_5_05), VInt32(1986)>>
ExampleStruct == VStruct(<<FV(S_BSON, TSlice(TAny), VSlice(TAny, ExampleElems))>>)
ExampleMap == VMap(TString, TSlice(TAny), <<Ent(S_BSON, VSlice(TAny, ExampleElems))>>)

\* []int32{100, 101, ..., 100+n-1}
IntSlice(n) == VSlice(TInt32, [i \in 1..n |-> VInt32(99 + i)])

InnerStruct == VStruct(<<FV(S_X, TInt32, VInt32(7))>>)
InnerMap == VMap(TString, TAny, <<Ent(S_X, VString(S_hi))>>)

\* Values of every supported type.
Supported ==
    << VFloat64(F_5_05), VString(S_hi), VBytes(<<1, 0>>), VBool(TRUE),
       VTime(1, 500000000), VInt32(-5), VInt64(Int64Of(-5)), VInt(Int64Of(7)),
       InnerStruct, InnerMap, VSlice(TAny, <<VString(S_hi), VInt32(3)>>),
       VTime(-1, 999000000), VSlice(TString, <<>>),
       VSlice(TBytes, <<VBytes(<<7>>)>>) >>

\* Values Marshal has no encoding for, or that sit behind an indirection.
Unusual ==
    << VNil, VNilPtr(TInt64), VPtr(TInt64, VInt64(Int64Of(9))),
       VPtr(TPtr(TInt32), VPtr(TInt32, VInt32(4))), VUint32(1),
       VPtr(TypeOf(InnerStruct), InnerStruct),
       VMap(TInt, TString, <<>>), VTime(0, 1234567), VTime(-1, 998500000),
       VSlice(TAny, <<VNil>>), VNilSlice(TInt32), VNilMap(TString, TAny) >>

\* The declared type of a struct field holding v.
FieldType(v) == IF v.kind = "nil" THEN TAny ELSE TypeOf(v)

StructOf(es) ==
    VStruct([i \in 1..Len(es) |-> FV(es[i].name, FieldType(es[i].val), es[i].val)])
DynStructOf(es) ==
    VStruct([i \in 1..Len(es) |-> FV(es[i].name, TAny, es[i].val)])
MapOf(es) == VMap(TString, TAny, es)
TypedMapOf(es) == VMap(TString, FieldType(es[1].val), es)

Forms(es) == <<StructOf(es), DynStructOf(es), MapOf(es), TypedMapOf(es)>>

\* One field, of every sample value, in every form; a second field before
\* or after it; slices of every length; the canonical example; a key with
\* a zero byte in it.
OneField(v) == Forms(<<Ent(S_B, v)>>)
TwoFields(v) ==
    << StructOf(<<Ent(S_B, v), Ent(S_A, VInt32(1))>>),
       MapOf(<<Ent(S_B, v), Ent(S_A, VString(S_hi))>>) >>

RECURSIVE Flatten(_)
Flatten(ss) == IF Len(ss) = 0 THEN <<>> ELSE ss[1] \o Flatten(Tail(ss))

Documents ==
    Flatten([i \in 1..Len(Supported) |-> OneField(Supported[i])])
    \o Flatten([i \in 1..Len(Supported) |-> TwoFields(Supported[i])])
    \o Flatten([i \in 1..Len(Unusual) |->
                <<StructOf(<<Ent(S_B, Unusual[i])>>), MapOf(<<Ent(S_B, Unusual[i])>>)>>])
    \o [n \in 1..(MaxSliceLen + 1) |-> StructOf(<<Ent(S_A, IntSlice(n - 1))>>)]
    \o << ExampleStruct, ExampleMap, StructOf(<<>>), MapOf(<<>>),
          MapOf(<<Ent(<<65, 0>>, VInt32(1))>>),
          StructOf(<<Ent(S_A, VStruct(<<FV(S_A, TInt32, VInt32(5))>>)),
                     Ent(S_B, InnerStruct)>>),
          MapOf(<<Ent(S_B_NUL, VInt32(1)), Ent(S_A, VUint32(1))>>),
          MapOf(<<Ent(S_X, MapOf(<<Ent(S_A, VUint32(1)), Ent(S_B_NUL, VInt32(1))>>))>>),
          VPtr(TypeOf(ExampleStruct), ExampleStruct),
          VPtr(TPtr(TypeOf(InnerMap)), VPtr(TypeOf(InnerMap), InnerMap)) >>

\* Values that are no document: what Marshal is to refuse at the top level.
NonDocuments ==
    << VSlice(TAny, ExampleElems), VFloat64(F_5_05), VString(S_hi), VBytes(<<1>>),
       VBool(FALSE), VTime(1, 0), VInt32(2), VInt64(Int64Of(2)), VInt(Int64Of(2)),
       VPtr(TInt32, VInt32(2)), VNil, VNilPtr(TypeOf(ExampleStruct)) >>

Inputs == Documents \o NonDocuments

\* The types a target may declare for one value.
ValueTypes == {TFloat64, TString, TBytes, TBool, TTime, TInt32, TInt64, TInt, TUint32}

\* Empty targets that declare the value named B, the values of a map, or
\* the elements of the slice named B, of one type.
TypedTargets ==
    {VPtr(TStruct(<<Fld(S_B, t)>>), ZeroValue(TStruct(<<Fld(S_B, t)>>))) : t \in ValueTypes}
    \cup {VPtr(TMap(TString, t), VNilMap(TString, t)) : t \in ValueTypes}
    \cup {VPtr(TStruct(<<Fld(S_B, TSlice(t))>>),
                ZeroValue(TStruct(<<Fld(S_B, TSlice(t))>>))) : t \in ValueTypes}

\* Targets of other shapes: a struct without the name B, at the top and
\* nested; an empty map that is not nil; values Unmarshal cannot decode into.
OtherTargets ==
    { VPtr(TStruct(<<Fld(S_A, TString)>>), ZeroValue(TStruct(<<Fld(S_A, TString)>>))),
      VPtr(TStruct(<<Fld(S_B, TStruct(<<Fld(S_A, TInt32)>>))>>),
           ZeroValue(TStruct(<<Fld(S_B, TStruct(<<Fld(S_A, TInt32)>>))>>))),
      VPtr(TMap(TString, TAny), VMap(TString, TAny, <<>>)),
      VStruct(<<FV(S_B, TInt32, VInt32(0))>>),
      VMap(TString, TAny, <<>>),
      VPtr(TSlice(TAny), VNilSlice(TAny)),
      VPtr(TInt32, VInt32(0)),
      VPtr(TMap(TInt, TString), VNilMap(TInt, TString)) }

S_Q == <<81>>

\* What a map holds before Unmarshal is handed it.
PriorEntries == <<Ent(S_A, VInt32(9)), Ent(S_Q, VString(S_hi))>>

\* The struct type with the fields A int32, B t and X string.
ThreeFields(t) == TStruct(<<Fld(S_A, TInt32), Fld(S_B, t), Fld(S_X, TString)>>)

\* Targets that hold values before the call: structs whose fields A and X
\* are set, at the top and nested; maps that have entries, at the top and
\* in a struct field.
PriorTargets ==
    {VPtr(ThreeFields(t),
          VStruct(<<FV(S_A, TInt32, VInt32(9)), FV(S_B, t, ZeroValue(t)),
                    FV(S_X, TString, VString(S_hi))>>)) : t \in {TInt32, TString, TTime}}
    \cup
    { VPtr(TStruct(<<Fld(S_B, TStruct(<<Fld(S_A, TInt32), Fld(S_X, TInt32)>>))>>),
           VStruct(<<FV(S_B, TStruct(<<Fld(S_A, TInt32), Fld(S_X, TInt32)>>),
                        VStruct(<<FV(S_A, TInt32, VInt32(9)),
                                  FV(S_X, TInt32, VInt32(0))>>))>>)),
      VPtr(TMap(TString, TAny), VMap(TString, TAny, PriorEntries)),
      VPtr(TStruct(<<Fld(S_B, TMap(TString, TAny))>>),
           VStruct(<<FV(S_B, TMap(TString, TAny),
                        VMap(TString, TAny, PriorEntries))>>)) }

\* Bytes written over a byte of the wire, and bytes appended to it.
Overwrites == {0, 1, kEtypeDeprecated6, 255}
Extras == {0, 5}

----------------------------------------------------------------------------
(* Other orders and containers for the same names and values. *)

Reverse(q) == [i \in 1..Len(q) |-> q[Len(q) + 1 - i]]

RECURSIVE Reordered(_)
\* v with the fields of every struct declared, and the entries of every map
\* visited, in the opposite order.
Reordered(v) ==
    CASE v.kind = "struct" ->
            [v EXCEPT !.fields = Reverse([i \in 1..Len(v.fields) |->
                [v.fields[i] EXCEPT !.val = Reordered(v.fields[i].val)]])]
      [] v.kind = "map" ->
            [v EXCEPT !.entries = Reverse([i \in 1..Len(v.entries) |->
                [v.entries[i] EXCEPT !.val = Reordered(v.entries[i].val)]])]
      [] v.kind = "slice" ->
            [v EXCEPT !.elems = [i \in 1..Len(v.elems) |-> Reordered(v.elems[i])]]
      [] v.kind = "ptr" -> IF v.isnil THEN v ELSE [v EXCEPT !.at = Reordered(v.at)]
      [] OTHER -> v

\* The struct v as a map[string]any, the map v as a struct, names and values kept.
OtherContainer(v) ==
    CASE v.kind = "struct" ->
            MapOf([i \in 1..Len(v.fields) |-> Ent(v.fields[i].name, v.fields[i].val)])
      [] v.kind = "map" -> StructOf(v.entries)
      [] OTHER -> v

Variant(v, how) ==
    CASE how = "reordered" -> Reordered(v)
      [] how = "container" -> OtherContainer(v)
      [] how = "both" -> OtherContainer(Reordered(v))

----------------------------------------------------------------------------
(* The state machine: a caller marshals a value, the bytes travel (and may *)
(* be altered on the way), and a caller unmarshals them into a target.     *)

NoResult == UEnd("none", VNil, 0)

Init ==
    /\ pc = "idle"
    /\ doc = VNil
    /\ enc = Err(<<>>)
    /\ doc2 = VNil
    /\ enc2 = Err(<<>>)
    /\ wire = <<>>
    /\ extra = 0
    /\ target = VNil
    /\ dec = NoResult

\* Marshal(d)
DoMarshal(d) ==
    /\ pc = "idle"
    /\ doc' = d
    /\ enc' = Marshal(d)
    /\ doc2' = d
    /\ enc2' = enc'
    /\ wire' = enc'.buf
    /\ extra' = 0
    /\ target' = VNil
    /\ dec' = NoResult
    /\ pc' = "marshalled"

\* Marshal of a value that has the names and values of doc.
DoMarshalVariant(how) ==
    /\ pc = "marshalled"
    /\ Deref(doc).kind \in {"struct", "map"}
    /\ doc2' = Variant(Deref(doc), how)
    /\ enc2' = Marshal(doc2')
    /\ pc' = "compared"
    /\ UNCHANGED <<doc, enc, wire, extra, target, dec>>

\* One byte of the wire is overwritten.
SetByte(i, b) ==
    /\ pc = "marshalled"
    /\ enc.st = "ok"
    /\ wire[i] /= b
    /\ wire' = [wire EXCEPT ![i] = b]
    /\ pc' = "altered"
    /\ UNCHANGED <<doc, enc, doc2, enc2, extra, target, dec>>

\* The offset after the zero byte that ends the name starting at offset p,
\* or past the end of buf when no zero byte follows.
RECURSIVE NameEnd(_, _)
NameEnd(buf, p) ==
    IF p >= Len(buf) THEN Len(buf) + 1
    ELSE IF buf[p + 1] = 0 THEN p + 1
    ELSE NameEnd(buf, p + 1)

\* The four bytes at offset p of buf as an int32, 0 when they are not there.
SizeAt(buf, p) ==
    IF p + 4 > Len(buf) THEN 0 ELSE BytesToInt32(SubSeq(buf, p + 1, p + 4))

\* The offset after the value of tag that starts at offset p.
ValueEnd(buf, p, tag) ==
    CASE tag \in {kEtypeDouble, kEtypeUtcDatetime, kEtypeInt64} -> p + 8
      [] tag = kEtypeInt32 -> p + 4
      [] tag = kEtypeBoolean -> p + 1
      [] tag = kEtypeString -> p + 4 + SizeAt(buf, p)
      [] tag = kEtypeBinary -> p + 4 + 1 + SizeAt(buf, p)
      [] tag \in {kEtypeDocument, kEtypeArray} -> p + SizeAt(buf, p)
      [] OTHER -> Len(buf) + 1

RECURSIVE TagOffsets(_, _, _)
\* The offsets of the tags of the elements that lie between offset p and
\* the terminator at offset term of a well-formed buf, at every depth.
TagOffsets(buf, p, term) ==
    IF p >= term THEN {}
    ELSE LET tag == buf[p + 1]
             ne == NameEnd(buf, p + 1)
             ve == ValueEnd(buf, ne, tag)
         IN  {p}
             \cup (IF tag \in {kEtypeDocument, kEtypeArray}
                   THEN TagOffsets(buf, ne + 4, ve - 1) ELSE {})
             \cup TagOffsets(buf, ve, term)

\* The places of the bytes of the names of the elements of a well-formed
\* buf, at every depth.
NameByteOffsets(buf) ==
    UNION {(p + 2)..(NameEnd(buf, p + 1) - 1) : p \in TagOffsets(buf, 4, Len(buf) - 1)}

\* Bytes written over a byte of a name: "0", "A", "B".
NameBytes == {48, 65, 66}

\* A byte of the name of an element of the wire is another byte.
SetNameByte(i, b) ==
    /\ pc = "marshalled"
    /\ enc.st = "ok"
    /\ Deref(doc).kind \in {"struct", "map"}
    /\ i \in NameByteOffsets(wire)
    /\ wire[i] /= b
    /\ wire' = [wire EXCEPT ![i] = b]
    /\ pc' = "renamed"
    /\ UNCHANGED <<doc, enc, doc2, enc2, extra, target, dec>>

\* The last byte of the wire is lost.
DropLast ==
    /\ pc = "marshalled"
    /\ enc.st = "ok"
    /\ Len(wire) > 0
    /\ wire' = SubSeq(wire, 1, Len(wire) - 1)
    /\ pc' = "truncated"
    /\ UNCHANGED <<doc, enc, doc2, enc2, extra, target, dec>>

\* A byte follows the wire.
AppendByte(b) ==
    /\ pc \in {"marshalled", "extended"}
    /\ enc.st = "ok"
    /\ extra < MaxExtra
    /\ wire' = Append(wire, b)
    /\ extra' = extra + 1
    /\ pc' = "extended"
    /\ UNCHANGED <<doc, enc, doc2, enc2, target, dec>>

\* An empty target of the shape of doc, and an empty dynamic map.
SameShape == VPtr(TypeOf(Deref(doc)), ZeroValue(TypeOf(Deref(doc))))
DynamicMap == VPtr(TMap(TString, TAny), VNilMap(TString, TAny))

\* Unmarshal(wire, t)
DoUnmarshal(t) ==
    /\ pc \in {"marshalled", "altered", "renamed", "truncated", "extended"}
    /\ enc.st = "ok"
    /\ target' = t
    /\ dec' = Unmarshal(wire, t)
    /\ pc' = "unmarshalled"
    /\ UNCHANGED <<doc, enc, doc2, enc2, wire, extra>>

\* The calls have returned; codec calls share no state, so the next caller
\* starts from scratch.
Return ==
    /\ pc \in {"compared", "unmarshalled"}
    /\ pc' = "idle"
    /\ doc' = VNil
    /\ enc' = Err(<<>>)
    /\ doc2' = VNil
    /\ enc2' = Err(<<>>)
    /\ wire' = <<>>
    /\ extra' = 0
    /\ target' = VNil
    /\ dec' = NoResult

Next ==
    \/ \E d \in {Inputs[i] : i \in 1..Len(Inputs)} : DoMarshal(d)
    \/ \E how \in {"reordered", "container", "both"} : DoMarshalVariant(how)
    \/ \E i \in 1..Len(wire), b \in Overwrites : SetByte(i, b)
    \/ \E i \in 1..Len(wire), b \in NameBytes : SetNameByte(i, b)
    \/ DropLast
    \/ \E b \in Extras : AppendByte(b)
    \/ \E t \in {SameShape} : DoUnmarshal(t)
    \/ \E t \in {DynamicMap} : DoUnmarshal(t)
    \/ \E t \in OtherTargets : DoUnmarshal(t)
    \/ \E t \in TypedTargets : pc = "marshalled" /\ DoUnmarshal(t)
    \/ \E t \in PriorTargets : pc \in {"marshalled", "renamed"} /\ DoUnmarshal(t)
    \/ Return

Spec == Init /\ [][Next]_vars

----------------------------------------------------------------------------
(* Properties. *)

\* The wire is what Marshal returned, and it was decoded into an empty
\* target of the shape of doc.
RoundTripped ==
    /\ pc = "unmarshalled"
    /\ wire = enc.buf
    /\ target = SameShape

IsDocument(v) == v.kind \in {"struct", "map"}

RECURSIVE Plain(_, _)
\* v, held in a place declared of type t, is built of the supported value
\* types only, each held so that the wire tells its Go type: no pointer, no
\* dynamic struct field, no int or struct or typed container behind any, no
\* time finer than a millisecond.
Plain(v, t) ==
    CASE v.kind \in {"float64", "string", "bytes", "bool", "int32", "int64"} -> TRUE
      [] v.kind = "int" -> t.kind = "int"
      [] v.kind = "time" -> "nsec" \in DOMAIN v /\ v.nsec % 1000000 = 0
      [] v.kind = "slice" ->
            /\ t.kind = "interface" => v.elemT = TAny
            /\ \A i \in 1..Len(v.elems) : Plain(v.elems[i], v.elemT)
      [] v.kind = "map" ->
            /\ v.keyT = TString
            /\ t.kind = "interface" => v.elemT = TAny
            /\ \A i \in 1..Len(v.entries) : Plain(v.entries[i].val, v.elemT)
      [] v.kind = "struct" ->
            /\ t.kind = "struct"
            /\ \A i \in 1..Len(v.fields) :
                    /\ v.fields[i].type /= TAny
                    /\ Plain(v.fields[i].val, v.fields[i].type)
      [] OTHER -> FALSE

PlainDocument ==
    /\ IsDocument(Deref(doc))
    /\ Plain(Deref(doc), TypeOf(Deref(doc)))

\* C1: round trip. Every document Marshal accepts, decoded from the bytes
\* Marshal returned into an empty target of its own shape, is decoded
\* without error and the target then equals the document.
C1_RoundTrip ==
    (RoundTripped /\ PlainDocument)
        => (dec.st = "ok" /\ SameValue(dec.val, Deref(doc)))

\* Every slice of v is shorter than n.
RECURSIVE SlicesShorter(_, _)
SlicesShorter(v, n) ==
    CASE v.kind = "slice" ->
            Len(v.elems) < n /\ \A i \in 1..Len(v.elems) : SlicesShorter(v.elems[i], n)
      [] v.kind = "map" ->
            \A i \in 1..Len(v.entries) : SlicesShorter(v.entries[i].val, n)
      [] v.kind = "struct" ->
            \A i \in 1..Len(v.fields) : SlicesShorter(v.fields[i].val, n)
      [] OTHER -> TRUE

\* The round trip of the documents whose slices have at most ten elements.
RoundTripShort ==
    (RoundTripped /\ PlainDocument /\ SlicesShorter(Deref(doc), 11))
        => (dec.st = "ok" /\ SameValue(dec.val, Deref(doc)))

\* doc is a struct of one field, a slice.
SliceDocument ==
    /\ doc.kind = "struct"
    /\ Len(doc.fields) = 1
    /\ doc.fields[1].val.kind = "slice"
    /\ Plain(doc, TypeOf(doc))

\* C5: sequence order. A slice of any length, eleven elements and more
\* included, comes back from Marshal and Unmarshal with its elements in
\* their original order.
C5_SequenceOrder ==
    (RoundTripped /\ SliceDocument)
        => (/\ dec.st = "ok"
            /\ dec.val.fields[1].val.elems = doc.fields[1].val.elems)

RECURSIVE ElementsAt(_, _, _, _, _)
RECURSIVE DocumentAt(_, _, _)
\* The bytes of buf from offset p to offset term are elements, one after
\* the other, then the terminator; every value that is a document or an
\* array is itself well formed; with ordered, each name is greater than the
\* name before it (prev, when there is one: names are not empty).
ElementsAt(buf, p, term, prev, ordered) ==
    IF p >= term THEN p = term /\ buf[term + 1] = kEtypeDone
    ELSE LET tag == buf[p + 1]
             ne == NameEnd(buf, p + 1)
             name == SubSeq(buf, p + 2, ne - 1)
             ve == ValueEnd(buf, ne, tag)
         IN  /\ ne < term
             /\ ve > ne
             /\ ve <= term
             /\ ordered => (Len(prev) = 0 \/ StrLess(prev, name))
             /\ tag \in {kEtypeDocument, kEtypeArray} => DocumentAt(buf, ne, ordered)
             /\ ElementsAt(buf, ve, term, name, ordered)

\* A document starts at offset p of buf: its first four bytes are its
\* length, its last byte is zero, and elements fill it in between.
DocumentAt(buf, p, ordered) ==
    LET size == SizeAt(buf, p)
    IN  /\ size >= 5
        /\ p + size <= Len(buf)
        /\ ElementsAt(buf, p + 4, p + size - 1, <<>>, ordered)

\* buf is one document, length prefixes right at every depth.
LengthPrefixed(buf) == DocumentAt(buf, 0, FALSE) /\ SizeAt(buf, 0) = Len(buf)

\* buf is one document, names ascending at every depth.
NamesAscending(buf) == DocumentAt(buf, 0, TRUE) /\ SizeAt(buf, 0) = Len(buf)

\* C2: determinism by key canonicalization. In every document Marshal
\* writes, at every depth, the names ascend byte-wise; a value with the
\* same names and values in another order, or in the other container
\* (struct for map, map for struct), gets the same bytes.
C2_Deterministic ==
    /\ (pc = "marshalled" /\ enc.st = "ok" /\ IsDocument(Deref(doc)))
            => NamesAscending(enc.buf)
    /\ (pc = "compared" /\ enc.st = "ok") => enc2 = enc

\* The same bytes came out for two fields declared in descending order and
\* for the same fields the other way round or in a map.
C2_Witness ==
    /\ pc = "compared"
    /\ enc.st = "ok"
    /\ enc2 = enc
    /\ doc2 /= doc
    /\ doc.kind = "struct"
    /\ Len(doc.fields) = 2
    /\ StrLess(doc.fields[2].name, doc.fields[1].name)

\* C3: length prefixes. Whenever Marshal succeeds, its output starts with
\* its own length as a little-endian int32 and ends with a zero byte, and
\* so does every document and array inside it.
C3_LengthPrefix ==
    (pc = "marshalled" /\ enc.st = "ok") => LengthPrefixed(enc.buf)

\* The length prefixes of what Marshal returns for a document.
LengthPrefixOfDocuments ==
    (pc = "marshalled" /\ enc.st = "ok" /\ IsDocument(Deref(doc)))
        => LengthPrefixed(enc.buf)

\* The target takes the bytes Marshal returned.
Accepts == Unmarshal(enc.buf, target).st = "ok"

\* The wire is what Marshal returned and at least one byte more.
Extended ==
    /\ Len(wire) > Len(enc.buf)
    /\ SubSeq(wire, 1, Len(enc.buf)) = enc.buf

\* The wire is what Marshal returned less its last byte.
Truncated ==
    /\ Len(enc.buf) > 0
    /\ wire = SubSeq(enc.buf, 1, Len(enc.buf) - 1)

\* C4: exact consumption. Bytes following a document its target accepts
\* make Unmarshal return an error, and so does the loss of its last byte;
\* Unmarshal succeeds only when the top-level document, by the count of the
\* bytes read and by its length prefix, is the whole input.
C4_ExactConsumption ==
    pc = "unmarshalled" =>
        /\ (Accepts /\ Extended) => dec.st = "error"
        /\ (Accepts /\ Truncated) => dec.st = "error"
        /\ dec.st = "ok" =>
                (dec.numread = Len(wire) /\ SizeAt(wire, 0) = Len(wire))

\* Two bytes after an accepted document were refused.
C4_Witness ==
    /\ pc = "unmarshalled"
    /\ Accepts
    /\ Extended
    /\ Len(wire) = Len(enc.buf) + 2
    /\ dec.st = "error"

\* The loss of the last byte of an accepted document was refused.
TruncatedRefused ==
    /\ pc = "unmarshalled"
    /\ Accepts
    /\ Truncated
    /\ dec.st = "error"

\* C6: the canonical example. The document {BSON: ["awesome", 5.05, 1986]},
\* as a struct with a []any field and as a map[string][]any, is marshalled
\* to the 49 bytes of the example, and those bytes unmarshalled into an
\* empty target of the same shape give the document back, its elements a
\* string, a float64 and an int32.
C6_Canonical ==
    /\ (pc /= "idle" /\ doc \in {ExampleStruct, ExampleMap})
            => enc = Ok(Canonical)
    /\ (RoundTripped /\ doc = ExampleStruct)
            => (/\ dec.st = "ok"
                /\ dec.val.fields[1].val.elems = ExampleElems
                /\ SameValue(dec.val, ExampleStruct))
    /\ (RoundTripped /\ doc = ExampleMap)
            => (/\ dec.st = "ok"
                /\ dec.val.entries[1].val.elems = ExampleElems
                /\ SameValue(dec.val, ExampleMap))

\* The 49 bytes were decoded into an empty map[string][]any.
C6_Witness ==
    /\ RoundTripped
    /\ doc = ExampleMap
    /\ wire = Canonical
    /\ Len(wire) = 49
    /\ dec.st = "ok"
    /\ dec.val.entries[1].val.elems = ExampleElems

RECURSIVE HasNull(_)
\* v is, or holds at some depth, a nil pointer or a nil interface value.
HasNull(v) ==
    CASE v.kind = "nil" -> TRUE
      [] v.kind = "ptr" -> v.isnil \/ HasNull(v.at)
      [] v.kind = "slice" -> \E i \in 1..Len(v.elems) : HasNull(v.elems[i])
      [] v.kind = "map" -> \E i \in 1..Len(v.entries) : HasNull(v.entries[i].val)
      [] v.kind = "struct" -> \E i \in 1..Len(v.fields) : HasNull(v.fields[i].val)
      [] OTHER -> FALSE

\* C7: null indirection. Marshal of a nil pointer, or of a document that
\* holds a nil pointer or a nil dynamic value at any depth, returns an error.
C7_NullIsError ==
    (pc = "marshalled" /\ doc.kind /= "nil" /\ HasNull(doc)) => enc.st = "error"

\* C8: the top level. Marshal of a value that, pointers followed, is a bare
\* slice or a float64, string, []byte, bool, time.Time, int32, int64 or int
\* returns an error.
C8_TopLevelDocumentOnly ==
    (/\ pc = "marshalled"
     /\ Deref(doc).kind \in {"slice", "float64", "string", "bytes", "bool",
                             "time", "int32", "int64", "int"})
        => enc.st = "error"

\* doc is a struct whose one field is declared any and holds a value of a
\* supported type.
DynamicFieldDocument ==
    /\ doc.kind = "struct"
    /\ Len(doc.fields) = 1
    /\ doc.fields[1].type = TAny
    /\ doc.fields[1].val.kind \in {"float64", "string", "bytes", "bool", "time",
                                   "int32", "int64", "struct", "map", "slice"}

\* C9: dynamic struct field. Unmarshal into a struct whose field is declared
\* any accepts an element of every supported tag and stores in the field
\* the value it stores in a map[string]any for that element.
C9_DynamicField ==
    (RoundTripped /\ DynamicFieldDocument)
        => (/\ dec.st = "ok"
            /\ dec.val.fields[1].val = Unmarshal(wire, DynamicMap).val.entries[1].val)

RECURSIVE HasDynamicField(_)
\* The type t has, at some depth, a struct field declared any.
HasDynamicField(t) ==
    CASE t.kind = "struct" ->
            \E i \in 1..Len(t.fields) :
                t.fields[i].type = TAny \/ HasDynamicField(t.fields[i].type)
      [] t.kind \in {"slice", "map", "ptr"} -> HasDynamicField(t.elem)
      [] OTHER -> FALSE

\* C10: decode totality. Whatever the bytes, Unmarshal into a struct or map
\* target returns nil or an error; a string of declared size zero or less,
\* a binary of negative declared size and a declared size beyond the end of
\* the input are errors.
C10_DecodeTotal ==
    (/\ pc = "unmarshalled"
     /\ target.kind = "ptr"
     /\ RKind(target.to) \in {"struct", "map"}
     /\ ~HasDynamicField(target.to))
        => dec.st \in {"ok", "error"}

\* C11: no partial result. A failed Marshal returns no bytes, and an
\* Unmarshal that returns an error leaves what its target points at as it
\* was before the call.
C11_NoPartialResult ==
    /\ (pc = "marshalled" /\ enc.st = "error") => enc.buf = <<>>
    /\ (pc = "unmarshalled" /\ dec.st = "error" /\ target.kind = "ptr")
            => SameValue(dec.val, target.at)

\* A failed Marshal returns no bytes.
NoBytesOnFailure ==
    (pc = "marshalled" /\ enc.st = "error") => enc.buf = <<>>

\* The names of the fields of the struct type t.
FieldNames(t) == {t.fields[i].name : i \in 1..Len(t.fields)}

\* The type of the field of the struct type t that is named name.
FieldTypeOf(t, name) ==
    t.fields[CHOOSE i \in 1..Len(t.fields) : t.fields[i].name = name].type

RECURSIVE NameMismatch(_, _, _)
\* The document at offset p of buf opens with an element, of any tag, whose
\* name is not a field of the struct type t; or it opens with a document
\* for a field of t that is a struct, and that document does.
NameMismatch(buf, p, t) ==
    /\ t.kind = "struct"
    /\ Len(buf) > p + 5
    /\ buf[p + 5] /= kEtypeDone
    /\ NameEnd(buf, p + 5) <= Len(buf)
    /\ LET ne == NameEnd(buf, p + 5)
           name == SubSeq(buf, p + 6, ne - 1)
       IN  \/ name \notin FieldNames(t)
           \/ /\ buf[p + 5] = kEtypeDocument
              /\ name \in FieldNames(t)
              /\ NameMismatch(buf, ne, FieldTypeOf(t, name))

NestedFieldNotFound ==
    /\ pc = "unmarshalled"
    /\ target.kind = "ptr"
    /\ NameMismatch(wire, 0, target.to)
    /\ wire[5] = kEtypeDocument
    /\ SubSeq(wire, 6, 6) \in FieldNames(target.to)
    /\ dec.why = "field not found"

\* The payload of the binary value that starts at offset v of buf.
BinaryPayload(buf, v) == SubSeq(buf, v + 6, v + 5 + SizeAt(buf, v))

\* The offset of the value of the first element of the document at offset p.
FirstValueAt(buf, p) == NameEnd(buf, p + 5)

\* The wire is what Marshal wrote and its first element is a binary.
BinaryFirst ==
    /\ wire = enc.buf
    /\ Len(wire) > 5
    /\ wire[5] = kEtypeBinary

\* The wire is what Marshal wrote and its first element is an array whose
\* first element is a binary.
BinaryFirstInArray ==
    /\ wire = enc.buf
    /\ Len(wire) > 5
    /\ wire[5] = kEtypeArray
    /\ wire[FirstValueAt(wire, 0) + 5] = kEtypeBinary

StringField == VPtr(TStruct(<<Fld(S_B, TString)>>), ZeroValue(TStruct(<<Fld(S_B, TString)>>)))
StringMap == VPtr(TMap(TString, TString), VNilMap(TString, TString))
StringSliceField ==
    VPtr(TStruct(<<Fld(S_B, TSlice(TString))>>),
         ZeroValue(TStruct(<<Fld(S_B, TSlice(TString))>>)))

\* C13: type incompatibility. A binary element for a struct field, a map
\* value or a slice element declared string is refused with the
\* type-mismatch error; for a value of a map[string]any or an element of a
\* []any it is accepted and gives a []byte equal to its payload.
C13_BinaryIntoString ==
    pc = "unmarshalled" =>
        /\ (BinaryFirst /\ target \in {StringField, StringMap})
                => (dec.st = "error" /\ dec.why = "cannot convert")
        /\ (BinaryFirstInArray /\ target = StringSliceField)
                => (dec.st = "error" /\ dec.why = "cannot convert")
        /\ (BinaryFirst /\ target = DynamicMap)
                => (/\ dec.st = "ok"
                    /\ dec.val.entries[1].val
                            = VBytes(BinaryPayload(wire, FirstValueAt(wire, 0))))
        /\ (BinaryFirstInArray /\ target = DynamicMap)
                => (/\ dec.st = "ok"
                    /\ dec.val.entries[1].val.elemT = TAny
                    /\ dec.val.entries[1].val.elems[1]
                            = VBytes(BinaryPayload(wire,
                                FirstValueAt(wire, FirstValueAt(wire, 0)))))

\* A binary element was refused by a field declared string.
C13_Witness ==
    /\ pc = "unmarshalled"
    /\ BinaryFirst
    /\ target = StringField
    /\ dec.st = "error"
    /\ dec.why = "cannot convert"

\* A binary element of an array came out of a map[string]any as a []byte
\* of its payload.
BinaryInDynamicSlice ==
    /\ pc = "unmarshalled"
    /\ BinaryFirstInArray
    /\ target = DynamicMap
    /\ dec.st = "ok"
    /\ dec.val.entries[1].val.elems[1] = VBytes(<<7>>)

\* A binary element of an array was refused by a slice declared []string.
BinaryIntoStringSlice ==
    /\ pc = "unmarshalled"
    /\ BinaryFirstInArray
    /\ target = StringSliceField
    /\ dec.why = "cannot convert"

\* The nine tags Unmarshal decodes.
SupportedTags ==
    {kEtypeDouble, kEtypeString, kEtypeDocument, kEtypeArray, kEtypeBinary,
     kEtypeBoolean, kEtypeUtcDatetime, kEtypeInt32, kEtypeInt64}

\* The wire is the document Marshal wrote with the tag of one element, at
\* depth nested or not, replaced by a tag that is not supported.
UnsupportedTagOnWire(nested) ==
    /\ IsDocument(Deref(doc))
    /\ Len(wire) = Len(enc.buf)
    /\ \E p \in TagOffsets(enc.buf, 4, Len(enc.buf) - 1) :
            /\ wire[p + 1] \notin SupportedTags \cup {kEtypeDone}
            /\ wire = [enc.buf EXCEPT ![p + 1] = wire[p + 1]]
            /\ nested => p > FirstValueAt(enc.buf, 0)

\* C14: unsupported tags. An element whose tag is none of the nine
\* supported ones makes Unmarshal return an error, whether it is for a
\* typed struct field, a typed map or slice, or a dynamic map or slice.
C14_UnsupportedTag ==
    (/\ pc = "unmarshalled"
     /\ target.kind = "ptr"
     /\ ~HasDynamicField(target.to)
     /\ UnsupportedTagOnWire(FALSE))
        => dec.st = "error"

\* An element of an unsupported tag inside an array was refused by a
\* map[string]any.
C14_Witness ==
    /\ pc = "unmarshalled"
    /\ target = DynamicMap
    /\ UnsupportedTagOnWire(TRUE)
    /\ wire[5] = kEtypeArray
    /\ dec.st = "error"
    /\ dec.why = "unsupported etype"

\* An element of an unsupported tag was refused by a typed struct field.
UnsupportedTagInStruct ==
    /\ pc = "unmarshalled"
    /\ target = SameShape
    /\ target.to.kind = "struct"
    /\ ~HasDynamicField(target.to)
    /\ UnsupportedTagOnWire(FALSE)
    /\ dec.why = "unsupported etype"

\* The document without elements.
EmptyDocument == <<5, 0, 0, 0, 0>>

EmptyStructTarget == VPtr(TStruct(<<>>), VStruct(<<>>))
EmptyMapTarget == VPtr(TMap(TString, TAny), VMap(TString, TAny, <<>>))

\* C15: the empty document. Marshal of a struct without fields and of an
\* empty map returns 05 00 00 00 00; Unmarshal of these five bytes into an
\* empty struct, an empty map or a nil map succeeds and decodes no element,
\* and a nil map comes out empty and not nil.
C15_EmptyDocument ==
    /\ (pc = "marshalled" /\ doc \in {StructOf(<<>>), MapOf(<<>>)})
            => enc = Ok(EmptyDocument)
    /\ (pc = "unmarshalled" /\ wire = EmptyDocument /\ target = EmptyStructTarget)
            => (dec.st = "ok" /\ dec.val = VStruct(<<>>))
    /\ (pc = "unmarshalled" /\ wire = EmptyDocument
            /\ target \in {EmptyMapTarget, DynamicMap})
            => (dec.st = "ok" /\ dec.val = VMap(TString, TAny, <<>>))

\* The five bytes were decoded into a nil map, which came out empty and
\* not nil.
C15_Witness ==
    /\ pc = "unmarshalled"
    /\ doc = MapOf(<<>>)
    /\ wire = EmptyDocument
    /\ wire = enc.buf
    /\ target = DynamicMap
    /\ target.at.null
    /\ dec.st = "ok"
    /\ ~dec.val.null

\* The five bytes were decoded into an empty struct.
EmptyStructDecoded ==
    /\ pc = "unmarshalled"
    /\ doc = StructOf(<<>>)
    /\ wire = enc.buf
    /\ target = EmptyStructTarget
    /\ dec.st = "ok"

\* The five bytes were decoded into an empty map that was not nil.
EmptyMapDecoded ==
    /\ pc = "unmarshalled"
    /\ wire = EmptyDocument
    /\ target = EmptyMapTarget
    /\ dec.st = "ok"

RECURSIVE HasPointer(_)
\* v is, or holds at some depth, a pointer that is not nil.
HasPointer(v) ==
    CASE v.kind = "ptr" -> ~v.isnil
      [] v.kind = "slice" -> \E i \in 1..Len(v.elems) : HasPointer(v.elems[i])
      [] v.kind = "map" -> \E i \in 1..Len(v.entries) : HasPointer(v.entries[i].val)
      [] v.kind = "struct" -> \E i \in 1..Len(v.fields) : HasPointer(v.fields[i].val)
      [] OTHER -> FALSE

RECURSIVE Pointees(_)
\* v with every pointer that is not nil replaced by what it points at.
Pointees(v) ==
    CASE v.kind = "ptr" -> IF v.isnil THEN v ELSE Pointees(v.at)
      [] v.kind = "slice" ->
            [v EXCEPT !.elems = [i \in 1..Len(v.elems) |-> Pointees(v.elems[i])]]
      [] v.kind = "map" ->
            [v EXCEPT !.entries = [i \in 1..Len(v.entries) |->
                Ent(v.entries[i].name, Pointees(v.entries[i].val))]]
      [] v.kind = "struct" ->
            [v EXCEPT !.fields = [i \in 1..Len(v.fields) |->
                [v.fields[i] EXCEPT !.val = Pointees(v.fields[i].val)]]]
      [] OTHER -> v

\* C16: pointers are followed. Marshal of a pointer that is not nil, at the
\* top level or as a value inside a document, through any number of
\* levels, returns what it returns for the value pointed at.
C16_PointerDeref ==
    (pc = "marshalled" /\ HasPointer(doc) /\ ~HasNull(doc))
        => enc = Marshal(Pointees(doc))

\* A pointer to a pointer to an int32, held in a document, was marshalled
\* as the int32.
C16_Witness ==
    /\ pc = "marshalled"
    /\ doc.kind = "struct"
    /\ \E i \in 1..Len(doc.fields) :
            /\ doc.fields[i].val.kind = "ptr"
            /\ doc.fields[i].val.at.kind = "ptr"
    /\ enc.st = "ok"
    /\ enc = Marshal(Pointees(doc))

\* A pointer to a pointer to a map was marshalled as the map.
TopLevelPointerMarshalled ==
    /\ pc = "marshalled"
    /\ doc.kind = "ptr"
    /\ doc.at.kind = "ptr"
    /\ enc.st = "ok"
    /\ enc = Marshal(Pointees(doc))

\* The target is no pointer, or points at a slice or a primitive, or at a
\* map whose keys are not strings.
NoDocumentTarget ==
    \/ target.kind \notin {"ptr", "nil"}
    \/ /\ target.kind = "ptr"
       /\ \/ RKind(target.to) \notin {"struct", "map"}
          \/ RKind(target.to) = "map" /\ RKind(target.to.key) /= "string"

\* What the caller's target holds: what it points at, or itself.
Held(t) == IF t.kind = "ptr" THEN t.at ELSE t

\* C17: the top-level decode target. Unmarshal returns an error and changes
\* nothing when its target is not a pointer, or points at a slice, at a
\* primitive or at a map whose keys are not strings.
C17_TopLevelTarget ==
    (pc = "unmarshalled" /\ NoDocumentTarget)
        => (dec.st = "error" /\ dec.val = Held(target))

\* A document with an element was refused by a pointer to a map with int
\* keys, which stayed nil.
C17_Witness ==
    /\ pc = "unmarshalled"
    /\ target = VPtr(TMap(TInt, TString), VNilMap(TInt, TString))
    /\ wire = enc.buf
    /\ Len(wire) > 5
    /\ dec.st = "error"
    /\ dec.why = "map key"
    /\ dec.val = target.at

\* A struct that is no pointer was refused.
NonPointerRefused ==
    /\ pc = "unmarshalled"
    /\ target.kind = "struct"
    /\ dec.st = "error"
    /\ dec.why = "not a pointer"

\* A pointer to a slice and a pointer to an int32 were refused.
PointerToNonDocumentRefused ==
    /\ pc = "unmarshalled"
    /\ target.kind = "ptr"
    /\ target.to.kind \in {"slice", "int32"}
    /\ dec.st = "error"
    /\ dec.why = "top level"

\* The example's bytes with two zero bytes after them: 51 bytes whose length
\* prefix says 49.
CanonicalAndTwo == Canonical \o <<0, 0>>

\* {"BSON": ["awesome", 5.05, 1986]} as a map[string]any holds it: the array
\* a []any of a string, a float64 and an int32.
ExampleDynamic ==
    VMap(TString, TAny, <<Ent(S_BSON, VSlice(TAny, ExampleElems))>>)

\* C18 as stated: the example's bytes with the two zero bytes after them,
\* unmarshalled into a nil map[string]any, give {"BSON": ["awesome", 5.05,
\* 1986]} and no error.
C18_AsWritten ==
    (pc = "unmarshalled" /\ wire = CanonicalAndTwo /\ target = DynamicMap)
        => (dec.st = "ok" /\ dec.val = ExampleDynamic)

\* C18: the canonical byte example. The 49 bytes of the example, unmarshalled
\* into a nil map[string]any, give {"BSON": ["awesome", 5.05, 1986]} and no
\* error; with two zero bytes after them they are refused, for not all
\* bytes are consumed.
C18_CanonicalDecoded ==
    /\ (pc = "unmarshalled" /\ wire = Canonical /\ target = DynamicMap)
            => (dec.st = "ok" /\ dec.val = ExampleDynamic)
    /\ (pc = "unmarshalled" /\ wire = CanonicalAndTwo /\ target = DynamicMap)
            => (dec.st = "error" /\ dec.why = "did not consume all bytes")

\* The 49 bytes were decoded into a nil map[string]any.
C18_Witness ==
    /\ pc = "unmarshalled"
    /\ wire = Canonical
    /\ Len(wire) = 49
    /\ target = DynamicMap
    /\ dec.st = "ok"
    /\ Len(dec.val.entries) = 1
    /\ dec.val.entries[1].val.elems[3] = VInt32(1986)

\* The 51 bytes were refused by a nil map[string]any.
CanonicalAndTwoRefused ==
    /\ pc = "unmarshalled"
    /\ wire = CanonicalAndTwo
    /\ Len(wire) = 51
    /\ target = DynamicMap
    /\ dec.st = "error"

RECURSIVE HasInvalidKey(_)
\* v is, or holds at some depth, a map one of whose keys has a zero byte.
HasInvalidKey(v) ==
    CASE v.kind = "ptr" -> ~v.isnil /\ HasInvalidKey(v.at)
      [] v.kind = "slice" -> \E i \in 1..Len(v.elems) : HasInvalidKey(v.elems[i])
      [] v.kind = "map" ->
            \E i \in 1..Len(v.entries) :
                \/ ~validateEname(v.entries[i].name)
                \/ HasInvalidKey(v.entries[i].val)
      [] v.kind = "struct" -> \E i \in 1..Len(v.fields) : HasInvalidKey(v.fields[i].val)
      [] OTHER -> FALSE

\* C19: the invalid-key check precedes emission. Marshal of a document one
\* of whose keys, at any depth, has a zero byte returns the invalid-key
\* error, also when the value under a key that sorts earlier is of an
\* unsupported type.
C19_InvalidKeyFirst ==
    (pc = "marshalled" /\ HasInvalidKey(doc))
        => (enc.st = "error" /\ enc.why = "invalid ename")

\* Marshal of a document one of whose keys has a zero byte returns an error
\* and no bytes.
InvalidKeyRefused ==
    (pc = "marshalled" /\ HasInvalidKey(doc))
        => (enc.st = "error" /\ enc.buf = <<>>)

\* A map whose only key has a zero byte got the invalid-key error.
InvalidKeyAlone ==
    /\ pc = "marshalled"
    /\ doc.kind = "map"
    /\ Len(doc.entries) = 1
    /\ ~validateEname(doc.entries[1].name)
    /\ enc.st = "error"
    /\ enc.why = "invalid ename"

\* The tags of the primitive values.
PrimitiveTags ==
    {kEtypeDouble, kEtypeString, kEtypeBinary, kEtypeBoolean,
     kEtypeUtcDatetime, kEtypeInt32, kEtypeInt64}

\* The pairs of a primitive tag and a declared type that go together.
Pairs(et, t) ==
    \/ et = kEtypeDouble /\ t = TFloat64
    \/ et = kEtypeString /\ t = TString
    \/ et = kEtypeBinary /\ t = TBytes
    \/ et = kEtypeBoolean /\ t = TBool
    \/ et = kEtypeUtcDatetime /\ t = TTime
    \/ et = kEtypeInt32 /\ t = TInt32
    \/ et = kEtypeInt64 /\ t \in {TInt64, TInt}

\* The wire is what Marshal wrote and its first element is named B.
FirstNamedB ==
    /\ wire = enc.buf
    /\ Len(wire) > 7
    /\ wire[6] = 66
    /\ wire[7] = 0

\* The tag of the first element of the array that is the first element of
\* the wire.
FirstTagInArray == wire[FirstValueAt(wire, 0) + 5]

\* The target is a struct whose field B is declared of a value type.
FieldTarget ==
    /\ target \in TypedTargets
    /\ target.to.kind = "struct"
    /\ FieldTypeOf(target.to, S_B) \in ValueTypes

\* The target is a map whose values are declared of a value type.
MapTarget == target \in TypedTargets /\ target.to.kind = "map"

\* The target is a struct whose field B is declared a slice of a value type.
SliceTarget ==
    /\ target \in TypedTargets
    /\ target.to.kind = "struct"
    /\ FieldTypeOf(target.to, S_B).kind = "slice"

\* C20: primitive compatibility without widening. A primitive element for
\* a struct field, a map value or a slice element whose declared type is
\* not dynamic is stored when tag and type pair as double/float64,
\* string/string, binary/[]byte, boolean/bool, UTC datetime/time.Time,
\* int32/int32, int64/int64 or int; with any other pairing Unmarshal
\* returns the type-mismatch error and stores nothing for the element.
C20_NoWidening ==
    pc = "unmarshalled" =>
        /\ (FieldTarget /\ FirstNamedB /\ wire[5] \in PrimitiveTags) =>
                IF Pairs(wire[5], FieldTypeOf(target.to, S_B))
                THEN /\ dec.why /= "cannot convert"
                     /\ dec.val.fields[1].val /= target.at.fields[1].val
                ELSE /\ dec.st = "error"
                     /\ dec.why = "cannot convert"
                     /\ dec.val = target.at
        /\ (MapTarget /\ wire = enc.buf /\ Len(wire) > 5 /\ wire[5] \in PrimitiveTags) =>
                IF Pairs(wire[5], target.to.elem)
                THEN Len(dec.val.entries) >= 1
                ELSE /\ dec.st = "error"
                     /\ dec.why = "cannot convert"
                     /\ dec.val.entries = <<>>
        /\ (/\ SliceTarget
            /\ FirstNamedB
            /\ wire[5] = kEtypeArray
            /\ FirstTagInArray \in PrimitiveTags) =>
                IF Pairs(FirstTagInArray, FieldTypeOf(target.to, S_B).elem)
                THEN Len(dec.val.fields[1].val.elems) >= 1
                ELSE /\ dec.st = "error"
                     /\ dec.why = "cannot convert"
                     /\ dec.val.fields[1].val.elems = <<>>

\* An int32 element was refused by a field declared int64, which kept its
\* zero.
C20_Witness ==
    /\ pc = "unmarshalled"
    /\ FirstNamedB
    /\ wire[5] = kEtypeInt32
    /\ target = VPtr(TStruct(<<Fld(S_B, TInt64)>>), ZeroValue(TStruct(<<Fld(S_B, TInt64)>>)))
    /\ dec.st = "error"
    /\ dec.why = "cannot convert"
    /\ dec.val.fields[1].val = ZeroValue(TInt64)

\* An int64 element was refused by a map declared map[string]int32.
Int64IntoInt32Refused ==
    /\ pc = "unmarshalled"
    /\ wire = enc.buf
    /\ Len(wire) > 5
    /\ wire[5] = kEtypeInt64
    /\ target = VPtr(TMap(TString, TInt32), VNilMap(TString, TInt32))
    /\ dec.why = "cannot convert"

\* An int64 element was stored in a field declared int.
Int64IntoIntStored ==
    /\ pc = "unmarshalled"
    /\ FirstNamedB
    /\ Len(wire) = 16
    /\ wire[5] = kEtypeInt64
    /\ target = VPtr(TStruct(<<Fld(S_B, TInt)>>), ZeroValue(TStruct(<<Fld(S_B, TInt)>>)))
    /\ dec.st = "ok"
    /\ dec.val.fields[1].val.kind = "int"

\* A string element of an array was stored in a slice declared []string, and
\* the int32 element after it was refused.
StringIntoStringSlice ==
    /\ pc = "unmarshalled"
    /\ SliceTarget
    /\ FirstNamedB
    /\ wire[5] = kEtypeArray
    /\ FirstTagInArray = kEtypeString
    /\ FieldTypeOf(target.to, S_B).elem = TString
    /\ Len(dec.val.fields[1].val.elems) >= 1

\* The offsets at which the length prefixes of a well-formed buf start: the
\* one of the top-level document and those of the documents and arrays
\* inside it, at every depth.
PrefixOffsets(buf) ==
    {0} \cup {NameEnd(buf, p + 1) :
                p \in {q \in TagOffsets(buf, 4, Len(buf) - 1) :
                            buf[q + 1] \in {kEtypeDocument, kEtypeArray}}}

\* The wire is the document Marshal wrote with one byte of one length
\* prefix changed, the prefix of a nested document or array when nested.
PrefixChanged(nested) ==
    /\ IsDocument(Deref(doc))
    /\ Len(wire) = Len(enc.buf)
    /\ \E q \in PrefixOffsets(enc.buf) :
            /\ nested => q > 0
            /\ SizeAt(wire, q) /= SizeAt(enc.buf, q)
            /\ \E j \in (q + 1)..(q + 4) : wire = [enc.buf EXCEPT ![j] = wire[j]]

\* C21: length mismatch at every depth. A document or an array, at the top
\* or nested, whose length prefix differs from the number of bytes from the
\* prefix through the terminator makes Unmarshal return an error.
C21_LengthMismatch ==
    (pc = "unmarshalled" /\ PrefixChanged(FALSE)) => dec.st = "error"

\* The same for targets Unmarshal takes a document into and that declare
\* no struct field dynamic.
LengthMismatchTyped ==
    (/\ pc = "unmarshalled"
     /\ target.kind = "ptr"
     /\ ~HasDynamicField(target.to)
     /\ PrefixChanged(FALSE))
        => dec.st = "error"

\* A nested document or array whose length prefix was changed was refused
\* for its size by a target of its shape.
C21_Witness ==
    /\ pc = "unmarshalled"
    /\ PrefixChanged(TRUE)
    /\ target = SameShape
    /\ dec.st = "error"
    /\ dec.why = "size mismatch"

\* A top-level length prefix of zero was refused for its size.
ZeroPrefixRefused ==
    /\ pc = "unmarshalled"
    /\ PrefixChanged(FALSE)
    /\ SizeAt(wire, 0) = 0
    /\ dec.st = "error"
    /\ dec.why = "size mismatch"

\* A negative length prefix of a nested array was refused for its size by a
\* map[string]any.
NegativePrefixRefused ==
    /\ pc = "unmarshalled"
    /\ PrefixChanged(TRUE)
    /\ \E q \in PrefixOffsets(enc.buf) : q > 0 /\ SizeAt(wire, q) < 0
    /\ target = DynamicMap
    /\ dec.st = "error"
    /\ dec.why = "size mismatch"

\* The value a struct or a map holds under the name B.
ValueNamedB(v) ==
    IF v.kind = "struct" THEN v.fields[MapGet(v.fields, S_B)].val
    ELSE v.entries[MapGet(v.entries, S_B)].val

\* The first element of buf is a UTC datetime named B, its eight bytes there.
DatetimeFirst(buf) ==
    /\ Len(buf) >= 16
    /\ buf[5] = kEtypeUtcDatetime
    /\ buf[6] = 66
    /\ buf[7] = 0

\* The int64 that is the payload of the first element of buf, named B.
FirstMillis(buf) == BytesToInt64(SubSeq(buf, 8, 15))

\* m fits 32 bits.
Narrow(m) == (m.hi = 0 /\ m.lo >= 0) \/ (m.hi = -1 /\ m.lo < 0)

\* The instant m milliseconds from the epoch is not after t.
NotAfter(m, t) ==
    LET s == m \div 1000                \* whole seconds, toward minus infinity
        r == (m % 1000) * 1000000       \* nanoseconds within the second
    IN  s < t.sec \/ (s = t.sec /\ r <= t.nsec)

\* The instant exactly m milliseconds from the epoch.
InstantOf(m) ==
    IF Narrow(m) THEN VTime(m.lo \div 1000, (m.lo % 1000) * 1000000)
    ELSE VTimeWide(m)

\* t without what it has below the millisecond.
TruncatedToMilli(t) == VTime(t.sec, (t.nsec \div 1000000) * 1000000)

\* C22: datetime arithmetic. Marshal writes for a time t the greatest
\* number of milliseconds whose instant is not after t, before the epoch
\* too; Unmarshal gives for the int64 m on the wire the instant exactly m
\* milliseconds from the epoch; so a time comes back truncated to the
\* millisecond, and what Unmarshal gives is marshalled to m again.
C22_Datetime ==
    /\ (/\ pc = "marshalled"
        /\ enc.st = "ok"
        /\ IsDocument(doc)
        /\ DatetimeFirst(enc.buf))
            => LET t == ValueNamedB(doc)
                   m == FirstMillis(enc.buf)
               IN  /\ Narrow(m)
                   /\ NotAfter(m.lo, t)
                   /\ ~NotAfter(m.lo + 1, t)
    /\ (/\ pc = "unmarshalled"
        /\ DatetimeFirst(wire)
        /\ dec.st = "ok")
            => LET got == ValueNamedB(dec.val)
                   m == FirstMillis(wire)
               IN  /\ got = InstantOf(m)
                   /\ convertInt64ToBytes(UnixMilli(got)) = SubSeq(wire, 8, 15)
    /\ (/\ pc = "unmarshalled"
        /\ IsDocument(doc)
        /\ wire = enc.buf
        /\ DatetimeFirst(wire)
        /\ dec.st = "ok")
            => ValueNamedB(dec.val) = TruncatedToMilli(ValueNamedB(doc))

\* A time a millisecond and a half before the epoch was written as -2 and
\* came back as two milliseconds before the epoch.
C22_Witness ==
    /\ pc = "unmarshalled"
    /\ IsDocument(doc)
    /\ wire = enc.buf
    /\ DatetimeFirst(wire)
    /\ ValueNamedB(doc) = VTime(-1, 998500000)
    /\ FirstMillis(wire) = Int64Of(-2)
    /\ dec.st = "ok"
    /\ ValueNamedB(dec.val) = VTime(-1, 998000000)

\* An int64 on the wire that Marshal did not write, negative and beyond 32
\* bits, was decoded to its instant.
WideNegativeDecoded ==
    /\ pc = "unmarshalled"
    /\ DatetimeFirst(wire)
    /\ wire /= enc.buf
    /\ FirstMillis(wire).hi < -1
    /\ dec.st = "ok"
    /\ ValueNamedB(dec.val).kind = "time"

\* A negative int64 on the wire that Marshal did not write, not a whole
\* number of seconds, was decoded to its instant.
NarrowNegativeDecoded ==
    /\ pc = "unmarshalled"
    /\ DatetimeFirst(wire)
    /\ wire /= enc.buf
    /\ FirstMillis(wire).hi = -1
    /\ FirstMillis(wire).lo % 1000 /= 0
    /\ dec.st = "ok"
    /\ ValueNamedB(dec.val).kind = "time"

RECURSIVE TopNames(_, _, _)
\* The names of the elements that lie between offset p and the terminator
\* at offset term of a well-formed buf, those of nested documents left out.
TopNames(buf, p, term) ==
    IF p >= term THEN {}
    ELSE LET ne == NameEnd(buf, p + 1)
         IN  {SubSeq(buf, p + 2, ne - 1)}
             \cup TopNames(buf, ValueEnd(buf, ne, buf[p + 1]), term)

\* The target is a struct that held values in fields before the call.
PriorStruct == target \in PriorTargets /\ target.to.kind = "struct"

\* C23: unmatched struct fields. After a successful Unmarshal into a
\* struct, every field whose name is not in the input holds what it held
\* before the call, at the top and in a nested struct; an input that names
\* no field at all is no error and changes nothing.
C23_UnmatchedFields ==
    (pc = "unmarshalled" /\ PriorStruct /\ wire = enc.buf /\ IsDocument(Deref(doc))) =>
        /\ wire = EmptyDocument => (dec.st = "ok" /\ dec.val = target.at)
        /\ dec.st = "ok" =>
            /\ \A i \in 1..Len(target.at.fields) :
                    target.at.fields[i].name \notin TopNames(wire, 4, Len(wire) - 1)
                        => dec.val.fields[i] = target.at.fields[i]
            /\ (/\ target.at.fields[1].val.kind = "struct"
                /\ wire[5] = kEtypeDocument)
                => \A i \in 1..Len(target.at.fields[1].val.fields) :
                        target.at.fields[1].val.fields[i].name
                            \notin TopNames(wire, FirstValueAt(wire, 0) + 4,
                                            FirstValueAt(wire, 0)
                                                + SizeAt(wire, FirstValueAt(wire, 0)) - 1)
                          => dec.val.fields[1].val.fields[i]
                                = target.at.fields[1].val.fields[i]

\* An input that names B alone was decoded into a struct whose fields A and
\* X were set: B was stored, A and X are as they were.
C23_Witness ==
    /\ pc = "unmarshalled"
    /\ PriorStruct
    /\ Len(target.at.fields) = 3
    /\ wire = enc.buf
    /\ TopNames(wire, 4, Len(wire) - 1) = {S_B}
    /\ dec.st = "ok"
    /\ dec.val.fields[2].val /= target.at.fields[2].val
    /\ dec.val.fields[1].val = VInt32(9)
    /\ dec.val.fields[3].val = VString(S_hi)

\* An input that names A and B was decoded into the same struct: A was
\* replaced, X is as it was.
MatchedFieldReplaced ==
    /\ pc = "unmarshalled"
    /\ PriorStruct
    /\ Len(target.at.fields) = 3
    /\ wire = enc.buf
    /\ TopNames(wire, 4, Len(wire) - 1) = {S_A, S_B}
    /\ dec.st = "ok"
    /\ dec.val.fields[1].val = VInt32(1)
    /\ dec.val.fields[3].val = VString(S_hi)

\* A nested document that names X alone was decoded into a nested struct
\* whose field A was set: A is as it was.
NestedFieldKept ==
    /\ pc = "unmarshalled"
    /\ PriorStruct
    /\ target.at.fields[1].val.kind = "struct"
    /\ wire = enc.buf
    /\ dec.st = "ok"
    /\ dec.val.fields[1].val.fields[1].val = VInt32(9)
    /\ dec.val.fields[1].val.fields[2].val = VInt32(7)

RECURSIVE ArrayNameOffsets(_, _, _, _)
\* The places of the bytes of the names of the elements of the arrays of a
\* well-formed buf, at every depth: those of the elements between offset p
\* and the terminator at offset term when inArray, and those inside them.
ArrayNameOffsets(buf, p, term, inArray) ==
    IF p >= term THEN {}
    ELSE LET tag == buf[p + 1]
             ne == NameEnd(buf, p + 1)
             ve == ValueEnd(buf, ne, tag)
         IN  (IF inArray THEN (p + 2)..(ne - 1) ELSE {})
             \cup (IF tag \in {kEtypeDocument, kEtypeArray}
                   THEN ArrayNameOffsets(buf, ne + 4, ve - 1, tag = kEtypeArray)
                   ELSE {})
             \cup ArrayNameOffsets(buf, ve, term, inArray)

\* The wire is the document Marshal wrote with one byte of the name of an
\* array element changed to another byte that is not zero: the name is as
\* long as it was.
ArrayRenamed ==
    /\ pc = "unmarshalled"
    /\ IsDocument(Deref(doc))
    /\ wire /= enc.buf
    /\ Len(wire) = Len(enc.buf)
    /\ \E i \in ArrayNameOffsets(enc.buf, 4, Len(enc.buf) - 1, FALSE) :
            /\ wire[i] /= 0
            /\ wire = [enc.buf EXCEPT ![i] = wire[i]]

\* C24: array names are ignored on decode. An input that differs from
\* another only in the names of array elements, made repeated, not
\* sequential or not numeric, is decoded to the same result: the elements in
\* the order they have in the input.
C24_ArrayNamesIgnored ==
    ArrayRenamed => dec = Unmarshal(enc.buf, target)

\* An array whose second element was renamed "0", like the first, was
\* decoded to the sequence of its elements in their order.
C24_Witness ==
    /\ ArrayRenamed
    /\ doc = ExampleMap
    /\ target = DynamicMap
    /\ SubSeq(wire, 15, 17) = <<kEtypeString, 48, 0>>
    /\ SubSeq(wire, 30, 32) = <<kEtypeDouble, 48, 0>>
    /\ dec.st = "ok"
    /\ dec.val.entries[1].val.elems = ExampleElems

\* An array one of whose elements was renamed "A" was decoded into a typed
\* slice.
LetterNameDecoded ==
    /\ ArrayRenamed
    /\ \E i \in 1..Len(wire) : wire[i] = 65 /\ enc.buf[i] /= 65
    /\ target = SameShape
    /\ dec.st = "ok"
    /\ dec.val.fields[1].val.kind = "slice"
    /\ Len(dec.val.fields[1].val.elems) >= 2

\* The kind of Go value a dynamic target gets for a primitive tag.
KindOfTag(tag) ==
    CASE tag = kEtypeDouble -> "float64"
      [] tag = kEtypeString -> "string"
      [] tag = kEtypeBinary -> "bytes"
      [] tag = kEtypeBoolean -> "bool"
      [] tag = kEtypeUtcDatetime -> "time"
      [] tag = kEtypeInt32 -> "int32"
      [] tag = kEtypeInt64 -> "int64"
      [] OTHER -> "none"

RECURSIVE DynamicElements(_, _, _, _, _)
RECURSIVE DynamicValue(_, _, _, _)
\* The elements between offset p and the terminator at offset term of a
\* well-formed buf are held by v, a map by their names or a slice from its
\* k-th element on, each as a value of the type its tag fixes.
DynamicElements(buf, p, term, v, k) ==
    IF p >= term THEN v.kind = "slice" => Len(v.elems) = k - 1
    ELSE LET tag == buf[p + 1]
             ne == NameEnd(buf, p + 1)
             name == SubSeq(buf, p + 2, ne - 1)
         IN  /\ IF v.kind = "map"
                THEN /\ \E i \in 1..Len(v.entries) : v.entries[i].name = name
                     /\ DynamicValue(buf, ne, tag, v.entries[MapGet(v.entries, name)].val)
                ELSE /\ k <= Len(v.elems)
                     /\ DynamicValue(buf, ne, tag, v.elems[k])
             /\ DynamicElements(buf, ValueEnd(buf, ne, tag), term, v, k + 1)

\* x is the value a dynamic target gets for the value of tag at offset q of
\* buf: a map[string]any for a document, a []any for an array, recursively.
DynamicValue(buf, q, tag, x) ==
    CASE tag = kEtypeDocument ->
            /\ x.kind = "map"
            /\ x.keyT = TString
            /\ x.elemT = TAny
            /\ DynamicElements(buf, q + 4, q + SizeAt(buf, q) - 1, x, 1)
      [] tag = kEtypeArray ->
            /\ x.kind = "slice"
            /\ x.elemT = TAny
            /\ DynamicElements(buf, q + 4, q + SizeAt(buf, q) - 1, x, 1)
      [] OTHER -> x.kind = KindOfTag(tag)

\* The target is a map[string]any: nil, empty or with entries.
DynamicTarget ==
    /\ target.kind = "ptr"
    /\ target.to = TMap(TString, TAny)

\* C25: dynamic decode types. In a map[string]any, and in the maps and
\* slices inside it, every value has the type its tag fixes: float64,
\* string, []byte, bool, time.Time, int32, int64 (never int), map[string]any
\* for a document, []any for an array.
C25_DynamicTypes ==
    (/\ pc = "unmarshalled"
     /\ DynamicTarget
     /\ IsDocument(Deref(doc))
     /\ wire = enc.buf)
        => /\ dec.st = "ok"
           /\ DynamicValue(wire, 0, kEtypeDocument, dec.val)

\* An int was marshalled, and came out of a map[string]any as an int64.
C25_Witness ==
    /\ pc = "unmarshalled"
    /\ DynamicTarget
    /\ IsDocument(doc)
    /\ wire = enc.buf
    /\ Len(wire) > 5
    /\ wire[5] = kEtypeInt64
    /\ ValueNamedB(doc).kind = "int"
    /\ dec.st = "ok"
    /\ ValueNamedB(dec.val) = VInt64(Int64Of(7))

\* A struct inside a document came out of a map[string]any as a
\* map[string]any, and a []string as a []any.
NestedDynamicDecoded ==
    /\ pc = "unmarshalled"
    /\ DynamicTarget
    /\ IsDocument(doc)
    /\ wire = enc.buf
    /\ Len(wire) > 5
    /\ wire[5] \in {kEtypeDocument, kEtypeArray}
    /\ ValueNamedB(doc).kind \in {"struct", "slice"}
    /\ ValueNamedB(doc).kind = "slice" => ValueNamedB(doc).elemT /= TAny
    /\ dec.st = "ok"
    /\ ValueNamedB(dec.val).elemT = TAny

\* The first element of the wire is a string named B, its size there, and
\* the target takes a string under that name: a struct or a map of the
\* shape of doc with no dynamic field, or a map[string]any.
StringFirst ==
    /\ pc = "unmarshalled"
    /\ Len(wire) >= 11
    /\ wire[5] = kEtypeString
    /\ wire[6] = 66
    /\ wire[7] = 0
    /\ IsDocument(Deref(doc))
    /\ target \in {SameShape, DynamicMap}
    /\ ~HasDynamicField(target.to)

\* The declared size of that string, and the place of the byte that follows
\* the body of that size.
StringSize == SizeAt(wire, 7)
AfterBody == 11 + StringSize

\* What C26 says of a string element whose declared size is s: without a
\* zero byte after the s-1 bytes of the body Unmarshal returns an error;
\* when it succeeds the next element or the terminator starts 4+s bytes
\* after the size, and the string is those s-1 bytes, zero bytes and all
\* (when no later element has the name B too).
StringRead ==
    /\ (AfterBody \notin 12..Len(wire) \/ wire[AfterBody] /= 0) => dec.st = "error"
    /\ dec.st = "ok" =>
            /\ SizeAt(wire, 0) = Len(wire)
            /\ ElementsAt(wire, AfterBody, Len(wire) - 1, <<>>, FALSE)
            /\ S_B \notin TopNames(wire, AfterBody, Len(wire) - 1)
                    => ValueNamedB(dec.val) = VString(SubSeq(wire, 12, AfterBody - 1))

\* C26: string payload reading. For a string element of declared size s
\* Unmarshal takes the next s-1 bytes for the string, zero bytes kept,
\* returns an error unless the byte after them is zero, and on success
\* counts 4+s bytes for the payload.
C26_StringPayload == StringFirst => StringRead

\* The same for a declared size of one or more.
StringPayloadSized == (StringFirst /\ StringSize >= 1) => StringRead

\* A string whose first byte was made zero was decoded with that byte in it.
ZeroByteKept ==
    /\ StringFirst
    /\ StringSize = 3
    /\ dec.st = "ok"
    /\ ValueNamedB(dec.val) = VString(<<0, 105>>)

\* A string whose terminator was made another byte was refused.
TerminatorRefused ==
    /\ StringFirst
    /\ StringSize = 3
    /\ wire[AfterBody] = 1
    /\ dec.st = "error"

\* A string whose declared size was made one less, so that the byte after
\* the body is not zero, was refused.
ShortSizeRefused ==
    /\ StringFirst
    /\ StringSize = 1
    /\ enc.buf[8] = 3
    /\ wire[AfterBody] /= 0
    /\ dec.st = "error"

\* The names of the entries of the map m.
KeySet(m) == {m.entries[i].name : i \in 1..Len(m.entries)}

\* The target is a map that had entries before the call.
PriorMap == target \in PriorTargets /\ target.to.kind = "map"

\* The target is a struct whose field B is a map that had entries before
\* the call, and the first element of the wire is a document named B.
PriorMapField ==
    /\ target \in PriorTargets
    /\ target.to.kind = "struct"
    /\ target.at.fields[1].val.kind = "map"
    /\ FirstNamedB
    /\ wire[5] = kEtypeDocument

\* C27: map targets are replaced, not merged. After a successful Unmarshal
\* into a map that had entries, at the top or in a struct field, the keys of
\* the map are the names of the elements of the input document and no
\* others.
C27_MapReplaced ==
    (pc = "unmarshalled" /\ wire = enc.buf /\ IsDocument(Deref(doc)) /\ dec.st = "ok") =>
        /\ PriorMap =>
                /\ KeySet(dec.val) = TopNames(wire, 4, Len(wire) - 1)
                /\ Len(dec.val.entries) = Cardinality(KeySet(dec.val))
        /\ PriorMapField =>
                LET q == FirstValueAt(wire, 0)
                    m == dec.val.fields[1].val
                IN  /\ KeySet(m) = TopNames(wire, q + 4, q + SizeAt(wire, q) - 1)
                    /\ Len(m.entries) = Cardinality(KeySet(m))

\* A map that held A and Q was handed a document that names B alone, and
\* holds B alone.
C27_Witness ==
    /\ pc = "unmarshalled"
    /\ PriorMap
    /\ KeySet(target.at) = {S_A, S_Q}
    /\ wire = enc.buf
    /\ dec.st = "ok"
    /\ KeySet(dec.val) = {S_B}

\* A map in a struct field that held A and Q was handed a document that
\* names X alone, and holds X alone.
MapFieldReplaced ==
    /\ pc = "unmarshalled"
    /\ PriorMapField
    /\ KeySet(target.at.fields[1].val) = {S_A, S_Q}
    /\ wire = enc.buf
    /\ dec.st = "ok"
    /\ KeySet(dec.val.fields[1].val) = {S_X}

\* The map that held A and Q was handed the empty document, and is empty.
PriorMapEmptied ==
    /\ pc = "unmarshalled"
    /\ PriorMap
    /\ wire = EmptyDocument
    /\ dec.st = "ok"
    /\ dec.val.entries = <<>>

RECURSIVE TopOffsets(_, _, _)
\* The offsets of the tags of the elements that lie between offset p and
\* the terminator at offset term of a well-formed buf, those of nested
\* documents left out.
TopOffsets(buf, p, term) ==
    IF p >= term THEN {}
    ELSE {p} \cup TopOffsets(buf, ValueEnd(buf, NameEnd(buf, p + 1), buf[p + 1]), term)

\* The name of the element whose tag is at offset p of buf.
NameAt(buf, p) == SubSeq(buf, p + 2, NameEnd(buf, p + 1) - 1)

\* The document that holds the element whose tag is at offset p of buf and
\* nothing else.
Single(buf, p) ==
    LET elem == SubSeq(buf, p + 1, ValueEnd(buf, NameEnd(buf, p + 1), buf[p + 1]))
    IN  convertInt32ToBytes(Len(elem) + 5) \o elem \o <<kEtypeDone>>

\* The value a struct or a map holds under name.
ValueUnder(v, name) ==
    IF v.kind = "struct" THEN v.fields[MapGet(v.fields, name)].val
    ELSE v.entries[MapGet(v.entries, name)].val

\* The wire is the document Marshal wrote with one byte of a name changed
\* to another that is not zero, the target is a struct or a map, and two
\* elements of the top-level document have the same name.
Duplicated ==
    /\ pc = "unmarshalled"
    /\ IsDocument(Deref(doc))
    /\ target.kind = "ptr"
    /\ RKind(target.to) \in {"struct", "map"}
    /\ Len(wire) = Len(enc.buf)
    /\ \E i \in NameByteOffsets(enc.buf) :
            /\ wire[i] /= 0
            /\ wire = [enc.buf EXCEPT ![i] = wire[i]]
    /\ \E p, q \in TopOffsets(wire, 4, Len(wire) - 1) :
            p < q /\ NameAt(wire, p) = NameAt(wire, q)

\* The offsets of the last occurrences of the names that occur more than
\* once at the top level of the wire.
LastOccurrences ==
    {p \in TopOffsets(wire, 4, Len(wire) - 1) :
        /\ \E q \in TopOffsets(wire, 4, Len(wire) - 1) :
                q < p /\ NameAt(wire, q) = NameAt(wire, p)
        /\ \A q \in TopOffsets(wire, 4, Len(wire) - 1) :
                q > p => NameAt(wire, q) /= NameAt(wire, p)}

\* Every element of the wire, handed to the target alone, is accepted.
EachAccepted ==
    \A p \in TopOffsets(wire, 4, Len(wire) - 1) :
        Unmarshal(Single(wire, p), target).st = "ok"

\* What C28 says of the last occurrence at offset p: what the target holds
\* under its name is what it holds when handed that occurrence alone.
LastStored(p) ==
    ValueUnder(dec.val, NameAt(wire, p))
        = ValueUnder(Unmarshal(Single(wire, p), target).val, NameAt(wire, p))

\* C28: duplicate names are accepted, last one wins. A document in which a
\* name occurs twice is not refused for that; after a successful call the
\* struct or the map holds under that name the value of the last
\* occurrence, and the bytes of both occurrences were counted.
C28_LastWins ==
    Duplicated =>
        /\ EachAccepted => dec.st = "ok"
        /\ dec.st = "ok" =>
                /\ dec.numread = Len(wire)
                /\ \A p \in LastOccurrences : LastStored(p)

\* The same where the last occurrence is not a document for a struct.
LastWinsButStructs ==
    Duplicated =>
        /\ EachAccepted => dec.st = "ok"
        /\ dec.st = "ok" =>
                /\ dec.numread = Len(wire)
                /\ \A p \in LastOccurrences :
                        ValueUnder(dec.val, NameAt(wire, p)).kind /= "struct"
                            => LastStored(p)

\* A struct was handed two int32 elements of the name of one field, and
\* holds the second.
DuplicateInStruct ==
    /\ Duplicated
    /\ target = SameShape
    /\ target.to.kind = "struct"
    /\ dec.st = "ok"
    /\ \E p \in LastOccurrences :
            /\ wire[p + 1] = kEtypeInt32
            /\ wire[5] = kEtypeInt32
            /\ ValueUnder(dec.val, NameAt(wire, p)) = VInt32(-5)

\* A map[string]any was handed two elements of one name and of different
\* tags, and holds the second alone.
DuplicateInMap ==
    /\ Duplicated
    /\ target = DynamicMap
    /\ dec.st = "ok"
    /\ Len(dec.val.entries) = 1
    /\ \E p \in LastOccurrences :
            /\ wire[p + 1] /= wire[5]
            /\ dec.val.entries[1].val.kind = KindOfTag(wire[p + 1])
====
